---- MODULE Spec2Model ----
(***************************************************************************)
(* Object browser store (useObjectBrowserStore): the upload chain, the     *)
(* listing refreshes and the recursive folder deletion, as a state         *)
(* machine.                                                                *)
(*                                                                         *)
(* A string is a sequence of one-character strings, so that slice, split   *)
(* and includes are computed and not assumed. The character "." stands    *)
(* for the substring '.file_placeholder'.                                  *)
(***************************************************************************)
EXTENDS Integers, Sequences, FiniteSets, TLC

\* ------------------------------------------------------------------ bounds

\* files handed to upload() in one behaviour
MaxUploads == 2
\* files of the drop event of SpecDropped
MaxDropped == 6
\* files in the longest drop event of the traversals that reach MaxTraversed
MaxCandidates == 103
\* createFolder and deleteObject calls in one behaviour
MaxOps == 1
\* keys one list response of the backend holds (the backend's page size)
BackendMaxKeys == 5
\* objects directly under the folder that is deleted
MaxFlat == 6
\* objects under the sub-folder of the folder that is deleted
MaxNested == 2
\* pages a listing is asked for
MaxPage == 2
\* pages the cursor is set to
MaxViewPage == 6
\* the listings called while an earlier one is outstanding, the first included
MaxRequested == 2

\* ------------------------------------------------------- program constants

\* upload: duplicateFiles.length === 5
MaxDuplicates == 5
\* upload: traversedCount === 100
MaxTraversed == 100
\* enqueueUpload: 30 * 1024 * 1024 * 1024, counted in GiB
MaxObjectGiB == 30
\* a pool of one thread more
FourThreads == 3 + 1

\* deleteFolder: Promise.all([thread(), thread(), thread()])
PoolSize == 3
\* MAX_KEY_COUNT, the pageSize of initList
MAX_KEY_COUNT == 500
\* DEFAULT_PAGE_LIMIT, the limit of state.cursor and so the MaxKeys of listCustom
\* and listAllVersions
DEFAULT_PAGE_LIMIT == 10

\* the cursor and the active range of a new FilesState
InitialCursor == [limit |-> DEFAULT_PAGE_LIMIT, page |-> 1]
InitialRange == [start |-> 1, end |-> 500]

\* ----------------------------------------------------------------- strings

Slash == "/"
PlaceholderName == "."
Empty == << >>

\* UTF-8 order of the characters in use
CharRank(c) ==
    CASE c = "." -> 1 [] c = "/" -> 2 [] c = "a" -> 3 [] c = "b" -> 4
      [] c = "c" -> 5 [] c = "d" -> 6 [] c = "e" -> 7 [] c = "g" -> 8
      [] c = "s" -> 9 [] OTHER -> 10

SetMin(S) == CHOOSE m \in S : \A n \in S : m <= n

Min(a, b) == IF a < b THEN a ELSE b

StartsWith(s, p) == Len(p) <= Len(s) /\ SubSeq(s, 1, Len(p)) = p

\* s.slice(n)
SliceFrom(s, n) == SubSeq(s, n + 1, Len(s))

\* s.slice(n, -1)
SliceFromDropLast(s, n) == SubSeq(s, n + 1, Len(s) - 1)

\* s.includes(c)
Includes(s, c) == \E i \in 1..Len(s) : s[i] = c

\* s.split('/')[0]
FirstSegment(s) ==
    LET at == {i \in 1..Len(s) : s[i] = Slash}
    IN  IF at = {} THEN s ELSE SubSeq(s, 1, SetMin(at) - 1)

\* the order of the characters of keys: that of CharRank, and ':' between '/'
\* and the letters
CharOrder(c) == IF c = ":" THEN 2 * CharRank(Slash) + 1 ELSE 2 * CharRank(c)

RECURSIVE StrLess(_, _)
StrLess(s, t) ==
    IF t = Empty THEN FALSE
    ELSE IF s = Empty THEN TRUE
    ELSE IF CharOrder(Head(s)) # CharOrder(Head(t))
         THEN CharOrder(Head(s)) < CharOrder(Head(t))
         ELSE StrLess(Tail(s), Tail(t))

\* the strings of S in ascending order
RECURSIVE SortStrings(_)
SortStrings(S) ==
    IF S = {} THEN << >>
    ELSE LET m == CHOOSE x \in S : \A y \in S \ {x} : StrLess(x, y)
         IN  <<m>> \o SortStrings(S \ {m})

SeqToSet(q) == {q[i] : i \in 1..Len(q)}

\* q.filter(P), q.map(F)
FilterSeq(q, P(_)) == SelectSeq(q, P)
MapSeq(q, F(_)) == [i \in 1..Len(q) |-> F(q[i])]

\* ----------------------------------------------------------------- backend

\* The keys of the objects of bucket b.
Keys(b) == {o.Key : o \in b}

\* PutObject / a completed multi-part upload: the object of that key is replaced.
PutObject(b, key, time) ==
    {o \in b : o.Key # key} \cup {[Key |-> key, LastModified |-> time, Size |-> 0]}

\* DeleteObject without a version id.
RemoveObject(b, key) == {o \in b : o.Key # key}

\* What a delimited listing reports for a key under the prefix: the key itself, or
\* the common prefix that rolls it up.
ListedName(key, prefix) ==
    LET rest == SliceFrom(key, Len(prefix))
    IN  IF Includes(rest, Slash)
        THEN prefix \o FirstSegment(rest) \o <<Slash>>
        ELSE key

\* ListObjects / ListObjectsV2 with Delimiter '/': the first maxKeys names in key
\* order, a rolled-up common prefix counting as one; IsTruncated when there are more.
ListObjects(b, prefix, maxKeys) ==
    LET under == {k \in Keys(b) : StartsWith(k, prefix)}
        names == SortStrings({ListedName(k, prefix) : k \in under})
        page  == SubSeq(names, 1, IF Len(names) < maxKeys THEN Len(names) ELSE maxKeys)
        isKey(n) == n \in under
        isPrefix(n) == n \notin under
        object(n) == CHOOSE o \in b : o.Key = n
    IN  [Contents       |-> MapSeq(FilterSeq(page, isKey), object),
         CommonPrefixes |-> FilterSeq(page, isPrefix),
         IsTruncated    |-> Len(names) > maxKeys]

\* ------------------------------------------------------------ object model

\* a file with a key is visible
hasKey(file) == Len(file.Key) > 0

\* isFileVisible
isFileVisible(file) == Len(file.Key) > 0 /\ ~Includes(file.Key, PlaceholderName)

\* prefixToFolder(path)({Prefix})
prefixToFolder(p, Prefix) ==
    [Key |-> SliceFromDropLast(Prefix, Len(p)), path |-> p, type |-> "folder",
     LastModified |-> 0, Size |-> 0]

\* the row gets the path of the root
fileOfRoot(p, file) ==
    [Key |-> SliceFrom(file.Key, Len(p)), path |-> Empty, type |-> "file",
     LastModified |-> file.LastModified, Size |-> file.Size]

\* makeFileRelative(path)(file)
makeFileRelative(p, file) ==
    [Key |-> SliceFrom(file.Key, Len(p)), path |-> p, type |-> "file",
     LastModified |-> file.LastModified, Size |-> file.Size]

\* Contents.sort by LastModified: the sort is stable
RECURSIVE InsertByDate(_, _)
InsertByDate(sorted, x) ==
    IF sorted = << >> THEN <<x>>
    ELSE LET last == sorted[Len(sorted)]
         IN  IF x.LastModified < last.LastModified
             THEN Append(InsertByDate(SubSeq(sorted, 1, Len(sorted) - 1), x), last)
             ELSE Append(sorted, x)

RECURSIVE SortByDate(_)
SortByDate(q) ==
    IF q = << >> THEN << >>
    ELSE InsertByDate(SortByDate(SubSeq(q, 1, Len(q) - 1)), q[Len(q)])

\* processFetchedObjects: the rows that replace state.files
processFetchedObjects(p, Contents, CommonPrefixes) ==
    LET folder(Prefix) == prefixToFolder(p, Prefix)
        relative(file) == makeFileRelative(p, file)
    IN  MapSeq(CommonPrefixes, folder)
          \o FilterSeq(MapSeq(SortByDate(Contents), relative), isFileVisible)

\* ------------------------------------------------------------------- state

VARIABLES
    files,               \* state.files: the rows of the current listing
    path,                \* state.path
    bucket,              \* the backend: the objects of the bucket
    mode,                \* "versions" (showObjectVersions), "alt" (isAltPagination) or "std"
    entries,             \* the UploadingBrowserObjects ever created, with their Upload
    uploading,           \* state.uploading: indices into entries, in array order
    steps,               \* state.uploadChain: one link per then() callback
    pendingFiles,        \* upload(): the files its second loop has still to enqueue
    objectPathForModal,  \* state.objectPathForModal
    listings,            \* listing calls sent to the backend and not yet answered
    notified,            \* the notifyError calls made
    thrown,              \* the error the last upload() or cancelUpload() call raised
    dropped,             \* the files of a drop event, until upload() is called with them
    calls,               \* createFolder and deleteObject calls
    filesToBeDeleted,    \* state.filesToBeDeleted
    versions,            \* the backend: the noncurrent versions and the delete markers
    folderCall,          \* the deleteFolder or deleteFolderWithVersions call
    pool,                \* its Contents and its three thread() calls
    deleteCalls,         \* the DeleteObjectCommands it has sent
    continuationTokens,  \* state.continuationTokens: the Map, as its entries
    cursor,              \* state.cursor: its limit and its page
    totalObjectCount,    \* state.totalObjectCount
    activeObjectsRange,  \* state.activeObjectsRange
    headingSorted,       \* state.headingSorted: "name", "size" or "date"
    orderBy,             \* state.orderBy: "asc" or "desc"
    s3,                  \* state.s3: the client, or null
    selectedFiles,       \* state.selectedFiles
    requested            \* the paths of the listings called since none was outstanding

browserVars == <<files, path, bucket, mode>>
uploadVars == <<entries, uploading, steps, pendingFiles, objectPathForModal>>
callVars == <<calls, filesToBeDeleted>>
folderVars == <<versions, folderCall, pool, deleteCalls>>
viewVars == <<totalObjectCount, activeObjectsRange, headingSorted, orderBy>>
pageVars == <<continuationTokens, cursor, viewVars>>
clientVars == <<s3, selectedFiles>>

\* state.s3 before init() and after clear()
NullClient == "null"

\* isInitialized; assertIsInitialized(state) throws when it does not hold
Initialized == s3 # NullClient

\* 'FilesModule: S3 Client is uninitialized. "state.s3" is null.'
UninitializedError == [name |-> "Uninitialized"]

NoError == [name |-> "none"]
NoFolderCall == [pc |-> "idle"]
NoPool == [Contents |-> << >>, threads |-> << >>, Listed |-> 0, issued |-> 0]

\* --------------------------------------------------------------- scheduling

\* callbacks that do not wait for the link before them
Unchained(k) == k >= 1

\* state.uploadChain.then(callback): the callback of link k runs once the promise
\* of link k - 1 is fulfilled, and never when it is rejected
ChainReady(k) == \A j \in 1..(k - 1) : steps[j].pc = "fulfilled"

\* One thread runs the store: a continuation that is ready (the next turn of the
\* second loop of upload(), a then() callback whose predecessor is fulfilled, the
\* code after an await whose promise has settled) runs before the next event (a
\* call by the user, an answer of the backend) is handled.
MicrotaskReady ==
    \/ pendingFiles # << >>
    \/ \E k \in 1..Len(steps) :
          \/ steps[k].pc = "pending" /\ ChainReady(k)
          \/ steps[k].pc = "transfer" /\ entries[steps[k].upload].upload # "running"

\* ------------------------------------------------------------------ upload

\* body.size, as whole GiB and the bytes beyond them
Bodies ==
    {[gib |-> MaxObjectGiB, rem |-> 0], [gib |-> MaxObjectGiB, rem |-> 1]}

\* a ceiling that refuses the largest size too
AtLeastMaxSize(body) == body.gib >= MaxObjectGiB

\* body.size > (30 * 1024 * 1024 * 1024)
ExceedsMaxSize(body) ==
    body.gib > MaxObjectGiB \/ (body.gib = MaxObjectGiB /\ body.rem > 0)

\* the { path, file } pairs traverse() can yield
TraverseResults ==
    {[path |-> p, name |-> n, body |-> b] :
        p \in {Empty, <<"d", Slash>>}, n \in {<<"a">>}, b \in Bodies}

\* a check of the full key alone, without the top-level directory
hasDuplicateKey(fileNames, item) == (item.path \o item.name) \in SeqToSet(fileNames)

\* hasDuplicate of upload()
hasDuplicate(fileNames, item) ==
    \/ FirstSegment(item.path) \in SeqToSet(fileNames)
    \/ (item.path \o item.name) \in SeqToSet(fileNames)

\* files after files.push({ path, file }) of turn i: every turn before it has
\* pushed its item too, a turn that does not push breaks the loop
Pushed(batch, i) == SubSeq(batch, 1, i)

\* the locals of the first loop of upload() before its first turn
LoopStarts ==
    [files |-> << >>, duplicateFiles |-> << >>, inspected |-> 0, broke |-> FALSE]

\* One turn of the first loop of upload(), on the item at i; nothing after a break.
TraverseTurn(fileNames, batch, ignoreDuplicate, loop, i) ==
    LET item == batch[i]
        fileName == item.path \o item.name
        traversedCount == Len(loop.files)
    IN  IF loop.broke THEN loop
        ELSE IF /\ ~ignoreDuplicate
                /\ Len(loop.duplicateFiles) < MaxDuplicates
                /\ hasDuplicate(fileNames, item)
        THEN LET pushed == Append(loop.duplicateFiles, fileName)
             IN  IF Len(pushed) = MaxDuplicates \/ traversedCount = MaxTraversed
                 THEN [files |-> loop.files, duplicateFiles |-> pushed,
                       inspected |-> i, broke |-> TRUE]
                 ELSE [files |-> Pushed(batch, i), duplicateFiles |-> pushed,
                       inspected |-> i, broke |-> FALSE]
        ELSE [files |-> Pushed(batch, i), duplicateFiles |-> loop.duplicateFiles,
              inspected |-> i, broke |-> FALSE]

\* the turns on the items from lo to hi, in order
RECURSIVE TraverseTurns(_, _, _, _, _, _)
TraverseTurns(fileNames, batch, ignoreDuplicate, loop, lo, hi) ==
    IF lo > hi THEN loop
    ELSE IF lo = hi THEN TraverseTurn(fileNames, batch, ignoreDuplicate, loop, lo)
    ELSE LET mid == (lo + hi) \div 2
             first == TraverseTurns(fileNames, batch, ignoreDuplicate, loop, lo, mid)
         IN  IF first.broke THEN first
             ELSE TraverseTurns(fileNames, batch, ignoreDuplicate, first, mid + 1, hi)

\* The first loop of upload(): what it has collected when it ends or breaks.
TraverseLoop(fileNames, batch, ignoreDuplicate) ==
    TraverseTurns(fileNames, batch, ignoreDuplicate, LoopStarts, 1, Len(batch))

\* state.uploading.some(f => f.Key === key && f.status === InProgress)
IsUploading(key) ==
    \E i \in 1..Len(uploading) :
        entries[uploading[i]].Key = key /\ entries[uploading[i]].status = "InProgress"

\* no splice: the entry of the key stays
SpliceNothing(key) == uploading

\* state.uploading after findIndex(file => file.Key === key) and splice(index, 1)
SpliceKey(key) ==
    LET at == {i \in 1..Len(uploading) : entries[uploading[i]].Key = key}
    IN  IF at = {} THEN uploading
        ELSE LET index == SetMin(at)
             IN  SubSeq(uploading, 1, index - 1)
                   \o SubSeq(uploading, index + 1, Len(uploading))

\* enqueueUpload(key, body)
enqueueUpload(key, body) ==
    LET id == Len(entries) + 1
    IN  IF IsUploading(key)
        THEN /\ notified' = notified \cup {[source |-> "alreadyUploading", of |-> key]}
             /\ UNCHANGED <<entries, uploading, steps>>
        ELSE IF ExceedsMaxSize(body)
        THEN /\ entries' = Append(entries,
                    [Key |-> key, status |-> "Failed", failedMessage |-> "TooBig",
                     upload |-> "none", type |-> "file"])
             /\ uploading' = Append(SpliceKey(key), id)
             /\ UNCHANGED <<steps, notified>>
        ELSE /\ entries' = Append(entries,
                    [Key |-> key, status |-> "InProgress", failedMessage |-> "none",
                     upload |-> "created", type |-> "file"])
             /\ uploading' = Append(SpliceKey(key), id)
             /\ steps' = Append(steps, [upload |-> id, pc |-> "pending", item |-> 0])
             /\ UNCHANGED notified

\* upload({ e }, ignoreDuplicate), up to its second loop; the traversal of the
\* dropped items is taken as one step
Upload(batch, ignoreDuplicate) ==
    LET fileNames == [i \in 1..Len(files) |-> files[i].Key]
        loop == TraverseLoop(fileNames, batch, ignoreDuplicate)
    IN  /\ ~MicrotaskReady
        /\ Initialized
        /\ IF Len(loop.duplicateFiles) > 0
           THEN /\ thrown' = [name |-> "DuplicateUploadError",
                              files |-> loop.duplicateFiles]
                /\ UNCHANGED pendingFiles
           ELSE /\ thrown' = NoError
                /\ pendingFiles' = loop.files
        /\ UNCHANGED <<entries, uploading, steps, objectPathForModal, listings, pageVars, notified>>
        /\ UNCHANGED <<browserVars, calls, filesToBeDeleted, folderVars>>
        /\ UNCHANGED <<clientVars, requested>>

\* upload(): one turn of the second loop
UploadEnqueue ==
    /\ pendingFiles # << >>
    /\ LET item == Head(pendingFiles)
       IN  enqueueUpload(path \o item.path \o item.name, item.body)
    /\ pendingFiles' = Tail(pendingFiles)
    /\ UNCHANGED <<objectPathForModal, listings, pageVars, thrown>>
    /\ UNCHANGED <<browserVars, callVars, dropped, folderVars>>
    /\ UNCHANGED <<clientVars, requested>>

\* The multi-part transfer of an Upload ends at the backend.
TransferEnds(id, ok) ==
    /\ ~MicrotaskReady
    /\ entries[id].upload = "running"
    /\ entries' = [entries EXCEPT ![id].upload = IF ok THEN "ok" ELSE "err"]
    /\ bucket' = IF ok THEN PutObject(bucket, entries[id].Key, 0) ELSE bucket
    /\ UNCHANGED <<files, path, mode, uploading, steps, pendingFiles, objectPathForModal>>
    /\ UNCHANGED <<listings, pageVars, notified, thrown, callVars, dropped, folderVars>>
    /\ UNCHANGED <<clientVars, requested>>

\* cancelUpload(key)
cancelUpload(key) ==
    LET at == {i \in 1..Len(uploading) : entries[uploading[i]].Key = key}
    IN  IF at = {}
        THEN /\ thrown' = [name |-> "FileNotFound"]
             /\ UNCHANGED entries
        ELSE LET id == uploading[SetMin(at)]
             IN  /\ entries' = [entries EXCEPT
                        ![id].upload = IF @ \in {"created", "running"} THEN "aborted" ELSE @,
                        ![id].status = "Cancelled"]
                 /\ UNCHANGED thrown

CancelUpload(key) ==
    /\ ~MicrotaskReady
    /\ cancelUpload(key)
    /\ UNCHANGED <<uploading, steps, pendingFiles, objectPathForModal, listings, pageVars, notified>>
    /\ UNCHANGED <<browserVars, callVars, dropped, folderVars>>
    /\ UNCHANGED <<clientVars, requested>>

\* ---------------------------------------------------------------- listings

\* the version id the backend gives the current version of a live object
CurrentVersion == "v3"
\* version ids, most recent first
VersionIds == <<"v3", "v2", "v1", "v0">>

\* every version and delete marker of the bucket
AllVersions ==
    {[Key |-> o.Key, VersionId |-> CurrentVersion, isDeleteMarker |-> FALSE,
      LastModified |-> o.LastModified, Size |-> o.Size] : o \in bucket} \cup versions

\* an entry of a version listing is a common prefix, a version or a delete marker
IsPrefixEntry(e) == "Prefix" \in DOMAIN e
IsVersionEntry(e) == ~IsPrefixEntry(e) /\ ~e.isDeleteMarker
IsMarkerEntry(e) == ~IsPrefixEntry(e) /\ e.isDeleteMarker
EntryName(e) == IF IsPrefixEntry(e) THEN e.Prefix ELSE e.Key
PrefixOf(e) == e.Prefix

\* the versions of key k among all, most recent version first
VersionsOfKey(all, k) ==
    LET has(v) == \E r \in all : r.Key = k /\ r.VersionId = v
        record(v) == CHOOSE r \in all : r.Key = k /\ r.VersionId = v
    IN  MapSeq(FilterSeq(VersionIds, has), record)

\* the entries of names in order, a key giving its versions and any other name
\* a common prefix
RECURSIVE VersionEntries(_, _, _)
VersionEntries(all, under, names) ==
    IF names = << >> THEN << >>
    ELSE (IF Head(names) \in under
          THEN VersionsOfKey(all, Head(names)) ELSE <<[Prefix |-> Head(names)]>>)
         \o VersionEntries(all, under, Tail(names))

\* what a version listing with Delimiter '/' walks through under prefix: versions,
\* delete markers and common prefixes in key order, most recent version first
KeysUnder(all, prefix) == {r.Key : r \in {x \in all : StartsWith(x.Key, prefix)}}

ListedNames(under, prefix) == SortStrings({ListedName(k, prefix) : k \in under})

FlatVersions(prefix) ==
    VersionEntries(AllVersions, KeysUnder(AllVersions, prefix),
                   ListedNames(KeysUnder(AllVersions, prefix), prefix))

\* ListObjectVersions with Delimiter '/': the first maxKeys versions, delete
\* markers and common prefixes, in key order and most recent version first
VersionsHead(flat, maxKeys) == SubSeq(flat, 1, Min(Len(flat), maxKeys))

VersionsOutput(page) ==
    [Versions       |-> FilterSeq(page, IsVersionEntry),
     DeleteMarkers  |-> FilterSeq(page, IsMarkerEntry),
     CommonPrefixes |-> MapSeq(FilterSeq(page, IsPrefixEntry), PrefixOf)]

ListObjectVersions(prefix, maxKeys) ==
    VersionsOutput(VersionsHead(FlatVersions(prefix), maxKeys))

\* clearTokens(): new Map()
NoTokens == {}
\* no ContinuationToken, no KeyMarker
NoToken == << >>

\* state.continuationTokens.get(key)
GetToken(tokens, key) ==
    IF \E e \in tokens : e.key = key
    THEN (CHOOSE e \in tokens : e.key = key).token ELSE NoToken

\* state.continuationTokens.set(key, token)
SetToken(tokens, key, token) ==
    {e \in tokens : e.key # key} \cup {[key |-> key, token |-> token]}

\* the markers with nothing between them
JoinedBare(keyMarker, versionMarker) == keyMarker \o versionMarker

\* `${NextKeyMarker ?? ''}::${NextVersionIdMarker ?? ''}`
JoinMarkers(keyMarker, versionMarker) == keyMarker \o <<":", ":">> \o versionMarker

\* continuationToken.split('::'), and its first two parts
SplitAt(tok) == {i \in 1..(Len(tok) - 1) : tok[i] = ":" /\ tok[i + 1] = ":"}

FirstPart(tok) == IF SplitAt(tok) = {} THEN tok ELSE SubSeq(tok, 1, SetMin(SplitAt(tok)) - 1)

SecondPart(tok) ==
    IF SplitAt(tok) = {} THEN << >>
    ELSE FirstPart(SubSeq(tok, SetMin(SplitAt(tok)) + 2, Len(tok)))

\* the entries a response can hold: MaxKeys, and never more than the backend
\* puts in one response
ResponseSize(maxKeys) == Min(maxKeys, BackendMaxKeys)

\* ListObjectsV2 with Delimiter '/', ContinuationToken and MaxKeys: the names
\* after the token, in key order
ListPage(b, prefix, token, maxKeys) ==
    LET under == {k \in Keys(b) : StartsWith(k, prefix)}
        after(n) == token = NoToken \/ StrLess(token, n)
        names == FilterSeq(SortStrings({ListedName(k, prefix) : k \in under}), after)
        page  == SubSeq(names, 1, Min(Len(names), ResponseSize(maxKeys)))
        isKey(n) == n \in under
        isPrefix(n) == n \notin under
        object(n) == CHOOSE o \in b : o.Key = n
    IN  [Contents       |-> MapSeq(FilterSeq(page, isKey), object),
         CommonPrefixes |-> FilterSeq(page, isPrefix),
         KeyCount       |-> Len(page),
         NextContinuationToken |->
             IF Len(names) > Len(page) /\ page # << >> THEN page[Len(page)] ELSE NoToken]

\* the entries of flat after the key marker and the version marker
VersionRank(v) == CHOOSE i \in 1..Len(VersionIds) : VersionIds[i] = v

VersionsAfter(flat, keyMarker, versionMarker) ==
    LET after(e) ==
            \/ keyMarker = NoToken
            \/ StrLess(keyMarker, EntryName(e))
            \/ /\ ~IsPrefixEntry(e)
               /\ e.Key = keyMarker
               /\ versionMarker # << >>
               /\ versionMarker[1] \in SeqToSet(VersionIds)
               /\ VersionRank(e.VersionId) > VersionRank(versionMarker[1])
    IN  FilterSeq(flat, after)

\* the response that holds page out of the entries rest
VersionsResponse(rest, page, truncated) ==
    [Versions       |-> FilterSeq(page, IsVersionEntry),
     DeleteMarkers  |-> FilterSeq(page, IsMarkerEntry),
     CommonPrefixes |-> MapSeq(FilterSeq(page, IsPrefixEntry), PrefixOf),
     NextKeyMarker  |-> IF truncated THEN EntryName(page[Len(page)]) ELSE << >>,
     NextVersionIdMarker |->
         IF truncated /\ ~IsPrefixEntry(page[Len(page)])
         THEN <<page[Len(page)].VersionId>> ELSE << >>]

VersionsTruncated(rest, maxKeys) == Len(rest) > ResponseSize(maxKeys)

VersionsOf(rest, maxKeys) ==
    VersionsResponse(rest, VersionsHead(rest, ResponseSize(maxKeys)),
                     VersionsTruncated(rest, maxKeys))

\* ListObjectVersions with Delimiter '/', KeyMarker, VersionIdMarker and MaxKeys
ListVersionsPage(prefix, keyMarker, versionMarker, maxKeys) ==
    VersionsOf(VersionsAfter(FlatVersions(prefix), keyMarker, versionMarker), maxKeys)

\* the items stay in the order of the response
ItemsOrder(q) == q

\* items.sort((a, b) => b.LastModified - a.LastModified): most recent first, stable
RECURSIVE InsertByDateDesc(_, _)
InsertByDateDesc(sorted, x) ==
    IF sorted = << >> THEN <<x>>
    ELSE LET last == sorted[Len(sorted)]
         IN  IF x.LastModified > last.LastModified
             THEN Append(InsertByDateDesc(SubSeq(sorted, 1, Len(sorted) - 1), x), last)
             ELSE Append(sorted, x)

RECURSIVE SortByDateDesc(_)
SortByDateDesc(q) ==
    IF q = << >> THEN << >>
    ELSE InsertByDateDesc(SortByDateDesc(SubSeq(q, 1, Len(q) - 1)), q[Len(q)])

\* the keys of groupedItems, in the order the Map got them
RECURSIVE GroupKeys(_)
GroupKeys(items) ==
    IF items = << >> THEN << >>
    ELSE LET before == GroupKeys(SubSeq(items, 1, Len(items) - 1))
             key == items[Len(items)].Key
         IN  IF key \in SeqToSet(before) THEN before ELSE Append(before, key)

\* listAllVersions: latestObjects of the response items
latestObjects(p, allItems) ==
    LET relative(item) == [item EXCEPT !.Key = SliceFrom(item.Key, Len(p))]
        visible == FilterSeq(MapSeq(allItems, relative), isFileVisible)
        browserObject(item) ==
            [Key |-> item.Key, path |-> p, VersionId |-> item.VersionId,
             LastModified |-> item.LastModified, type |-> "file",
             Size |-> IF "Size" \in DOMAIN item THEN item.Size ELSE 0,
             isDeleteMarker |-> item.isDeleteMarker]
        group(key) ==
            LET ofKey(item) == item.Key = key
            IN  SortByDateDesc(MapSeq(FilterSeq(visible, ofKey), browserObject))
        latest(key) ==
            LET items == group(key)
            IN  [Key |-> key, path |-> items[1].path, type |-> items[1].type,
                 Versions |-> items, LastModified |-> items[1].LastModified,
                 Size |-> items[1].Size,
                 isDeleteMarker |-> items[1].isDeleteMarker]
    IN  MapSeq(GroupKeys(visible), latest)

\* MaxKeys of the request: the pageSize of the paginator of initList, cursor.limit
\* in listCustom and listAllVersions, none in listByToken
MaxKeysOf(fn) ==
    CASE fn = "initList" -> MAX_KEY_COUNT
      [] fn \in {"listCustom", "listAllVersions"} -> cursor.limit
      [] OTHER -> BackendMaxKeys

\* The rows a successful listing call puts in state.files.
PageRows(fn, p, token) ==
    LET folder(Prefix) == prefixToFolder(p, Prefix)
    IN  IF fn = "listAllVersions"
        THEN LET response == ListVersionsPage(p, FirstPart(token), SecondPart(token),
                                              cursor.limit)
             IN  MapSeq(response.CommonPrefixes, folder)
                   \o latestObjects(p, response.Versions \o response.DeleteMarkers)
        ELSE LET response ==
                     ListPage(bucket, p, token,
                              MaxKeysOf(fn))
             IN  processFetchedObjects(p, response.Contents, response.CommonPrefixes)

\* the token a response hands on for the next page, if it has one
NextToken(fn, p, token) ==
    IF fn = "listAllVersions"
    THEN LET response == ListVersionsPage(p, FirstPart(token), SecondPart(token),
                                          cursor.limit)
             nextToken == JoinMarkers(response.NextKeyMarker, response.NextVersionIdMarker)
         IN  IF nextToken # <<":", ":">> THEN nextToken ELSE NoToken
    ELSE ListPage(bucket, p, token,
                  MaxKeysOf(fn)).NextContinuationToken

\* the rows of the first page of a listing
ListingRows(fn, p) == PageRows(fn, p, NoToken)

\* The listing a refresh calls: listAllVersions(state.path, 1, true),
\* listCustom(state.path, 1, true) or initList()
RefreshCall(owner) ==
    [fn    |-> CASE mode = "versions" -> "listAllVersions"
                 [] mode = "alt" -> "listCustom"
                 [] OTHER -> "initList",
     path  |-> path,
     owner |-> owner,
     page  |-> 1, saveNextToken |-> TRUE, token |-> NoToken, iteration |-> 1,
     keyCount |-> 0]

OwnedBy(kind, index) == [kind |-> kind, index |-> index]

\* a refresh is called: clearTokens() except before initList(), and the listing
\* call is sent; listAllVersions sets cursor.page before it sends it
StartRefresh(owner) ==
    /\ listings' = Append(listings, RefreshCall(owner))
    /\ continuationTokens' = IF mode = "std" THEN continuationTokens ELSE NoTokens
    /\ cursor' = IF mode = "versions" THEN [cursor EXCEPT !.page = 1] ELSE cursor
    /\ UNCHANGED viewVars

\* a page one further than the page the token belongs to
SecondNextPage(page) == page + 2

\* state.continuationTokens.set(page + 1, ...)
NextPage(page) == page + 1

Remove(q, i) == SubSeq(q, 1, i - 1) \o SubSeq(q, i + 1, Len(q))

\* removeFile(file): the rows and the pending deletions it leaves
removeFileRows(rows, file) ==
    LET kept(row) == ~(row.Key = file.Key /\ row.path = file.path)
    IN  FilterSeq(rows, kept)

CompositeKey(file) == file.path \o file.Key

\* ------------------------------------------------------------ upload chain

\* the callback starts: state.uploading.find(...), then upload.done() is called,
\* which starts the transfer of the Upload, and awaited
StepStarts(k) ==
    /\ steps[k].pc = "pending"
    /\ ChainReady(k)
    /\ LET key == entries[steps[k].upload].Key
           found == {i \in 1..Len(uploading) :
                        /\ entries[uploading[i]].Key = key
                        /\ entries[uploading[i]].status # "Cancelled"}
       IN  IF found = {}
           THEN /\ steps' = [steps EXCEPT ![k].pc = "fulfilled"]
                /\ UNCHANGED entries
           ELSE /\ steps' = [steps EXCEPT ![k].pc = "transfer",
                                          ![k].item = uploading[SetMin(found)]]
                /\ entries' = [entries EXCEPT ![steps[k].upload].upload =
                                   IF @ = "created" THEN "running" ELSE @]
    /\ UNCHANGED <<uploading, pendingFiles, objectPathForModal>>
    /\ UNCHANGED <<listings, pageVars, notified, thrown, browserVars, callVars, dropped, folderVars>>
    /\ UNCHANGED <<clientVars, requested>>

\* handleUploadError(item, error)
handleUploadError(item, upload, errorName) ==
    IF errorName = "AbortError" /\ entries[item].status = "Cancelled"
    THEN UNCHANGED <<entries, notified>>
    ELSE /\ entries' = [entries EXCEPT ![item].status = "Failed",
                                       ![item].failedMessage = "Failed"]
         /\ notified' = notified \cup
                {[source |-> "handleUploadError", of |-> entries[upload].Key]}

\* upload.done() has settled: the callback goes on to its refresh or to its return
StepAfterTransfer(k) ==
    LET upload == steps[k].upload
        item == steps[k].item
    IN  /\ steps[k].pc = "transfer"
        /\ entries[upload].upload # "running"
        /\ IF entries[upload].upload = "ok"
           THEN /\ entries' = [entries EXCEPT ![item].status = "Finished"]
                /\ StartRefresh(OwnedBy("chain", k))
                /\ steps' = [steps EXCEPT ![k].pc = "refresh"]
                /\ UNCHANGED notified
           ELSE /\ handleUploadError(item, upload,
                        IF entries[upload].upload = "aborted"
                        THEN "AbortError" ELSE "Error")
                /\ steps' = [steps EXCEPT ![k].pc = "fulfilled"]
                /\ UNCHANGED <<listings, pageVars>>
        /\ UNCHANGED <<uploading, pendingFiles, objectPathForModal, thrown>>
        /\ UNCHANGED <<browserVars, callVars, dropped, folderVars>>
        /\ UNCHANGED <<clientVars, requested>>

\* the end of the callback, after its refresh
objectPathAfterUpload(rows, key) ==
    LET isFile(row) == row.type = "file"
    IN  IF Len(FilterSeq(rows, isFile)) = 1 /\ ~Includes(key, Slash)
        THEN key ELSE objectPathForModal

\* keyCount stays what it was before the response
\* the listings of q that were called directly, not as the refresh of an operation
DirectListings(q) == {i \in 1..Len(q) : q[i].owner.kind = "user"}

keyCountKept(call) == call.keyCount

\* keyCount += response.KeyCount ?? 0, in the loop of initList
keyCountAfter(call) ==
    call.keyCount + ListPage(bucket, call.path, call.token, MAX_KEY_COUNT).KeyCount

\* The backend answers a listing call: initList, listByToken, listCustom or
\* listAllVersions goes on, and then the operation that awaits it. The paginator
\* of initList sends the call for its next batch when the answer names one.
ListingReturns(i, ok) ==
    LET call == listings[i]
        owner == call.owner
        rows == PageRows(call.fn, call.path, call.token)
        next == NextToken(call.fn, call.path, call.token)
        more == ok /\ call.fn = "initList" /\ next # NoToken
        done == ok /\ ~more
        replaces == ok /\ (call.fn = "initList" => call.iteration = 1)
        shown == IF replaces THEN rows ELSE files
        op == calls[owner.index]
    IN  /\ ~MicrotaskReady
        /\ listings' = IF more
                       THEN [listings EXCEPT ![i].iteration = @ + 1, ![i].token = next,
                                             ![i].keyCount = keyCountAfter(call)]
                       ELSE Remove(listings, i)
        /\ path' = IF replaces THEN call.path ELSE path
        /\ files' = IF done /\ owner.kind = "call" /\ op.op = "deleteObject"
                    THEN removeFileRows(shown, op.file) ELSE shown
        /\ continuationTokens' =
               CASE more ->
                      SetToken(continuationTokens,
                               MAX_KEY_COUNT * (call.iteration + 1), next)
                 [] ok /\ call.fn \in {"listCustom", "listAllVersions"}
                       /\ call.saveNextToken /\ next # NoToken ->
                      SetToken(continuationTokens, NextPage(call.page), next)
                 [] OTHER -> continuationTokens
        /\ cursor' = IF ok /\ call.fn = "listCustom"
                     THEN [cursor EXCEPT !.page = call.page] ELSE cursor
        /\ activeObjectsRange' =
               CASE ok /\ call.fn = "initList" /\ call.iteration = 1 -> InitialRange
                 [] ok /\ call.fn = "listByToken" ->
                      [start |-> call.page - MAX_KEY_COUNT, end |-> call.page]
                 [] OTHER -> activeObjectsRange
        /\ totalObjectCount' =
               IF done /\ call.fn = "initList"
               THEN IF call.path # Empty THEN keyCountAfter(call) - 1
                    ELSE keyCountAfter(call)
               ELSE totalObjectCount
        /\ UNCHANGED <<headingSorted, orderBy>>
        /\ IF owner.kind = "chain" /\ ~more
           THEN /\ steps' = [steps EXCEPT ![owner.index].pc =
                                 IF ok THEN "fulfilled" ELSE "rejected"]
                /\ objectPathForModal' =
                       IF ok
                       THEN objectPathAfterUpload(shown,
                                entries[steps[owner.index].upload].Key)
                       ELSE objectPathForModal
           ELSE UNCHANGED <<steps, objectPathForModal>>
        /\ IF owner.kind = "call" /\ ~more
           THEN /\ calls' = [calls EXCEPT ![owner.index].pc =
                                 IF ok THEN "done" ELSE "failed"]
                /\ filesToBeDeleted' =
                       IF ok /\ op.op = "deleteObject"
                       THEN filesToBeDeleted \ {CompositeKey(op.file)}
                       ELSE filesToBeDeleted
           ELSE UNCHANGED <<calls, filesToBeDeleted>>
        /\ IF owner.kind = "folder" /\ ~more
           THEN folderCall' = [folderCall EXCEPT
                                   !.pc = IF ok THEN "resolved" ELSE "rejected"]
           ELSE UNCHANGED folderCall
        /\ UNCHANGED <<bucket, mode, entries, uploading, pendingFiles, notified, thrown>>
        /\ UNCHANGED <<dropped, versions, pool, deleteCalls>>
        /\ UNCHANGED clientVars
        /\ requested' = IF DirectListings(listings') = {} THEN << >> ELSE requested

\* -------------------------------------------------- listings called directly

\* the paths of the listings called directly since none of them was
\* outstanding, in the order of the calls, with the call of a listing of p; none
\* once all of them are answered
Requested(p) == IF DirectListings(listings) = {} THEN <<p>> ELSE Append(requested, p)

\* what path, files and cursor.page are when a listing is called
Shown == [files |-> files, path |-> path, page |-> cursor.page]

\* listCustom(p, page, saveNextToken): the token of the page is read and the
\* ListObjectsV2Command is sent
ListCustom(p, page, saveNextToken) ==
    /\ ~MicrotaskReady
    /\ Initialized
    /\ listings' = Append(listings,
           [fn |-> "listCustom", path |-> p, owner |-> OwnedBy("user", 0),
            page |-> page, saveNextToken |-> saveNextToken,
            token |-> GetToken(continuationTokens, page), iteration |-> 1,
            before |-> Shown])
    /\ UNCHANGED <<pageVars, notified, thrown, dropped>>
    /\ UNCHANGED <<browserVars, uploadVars, callVars, folderVars>>
    /\ UNCHANGED clientVars
    /\ requested' = Requested(p)

\* listAllVersions(p, page, saveNextToken): the token of the page is read and
\* split into the KeyMarker and the VersionIdMarker of the request, cursor.page
\* is set and the ListObjectVersionsCommand is sent
ListAllVersions(p, page, saveNextToken) ==
    /\ ~MicrotaskReady
    /\ Initialized
    /\ listings' = Append(listings,
           [fn |-> "listAllVersions", path |-> p, owner |-> OwnedBy("user", 0),
            page |-> page, saveNextToken |-> saveNextToken,
            token |-> GetToken(continuationTokens, page), iteration |-> 1,
            KeyMarker |-> FirstPart(GetToken(continuationTokens, page)),
            VersionIdMarker |-> SecondPart(GetToken(continuationTokens, page)),
            before |-> Shown])
    /\ cursor' = [cursor EXCEPT !.page = page]
    /\ UNCHANGED <<continuationTokens, viewVars, notified, thrown, dropped>>
    /\ UNCHANGED <<browserVars, uploadVars, callVars, folderVars>>
    /\ UNCHANGED clientVars
    /\ requested' = Requested(p)

\* initList(p): the paginator sends the call for the first batch
InitList(p) ==
    /\ ~MicrotaskReady
    /\ Initialized
    /\ listings' = Append(listings,
           [fn |-> "initList", path |-> p, owner |-> OwnedBy("user", 0),
            page |-> 0, saveNextToken |-> FALSE, token |-> NoToken, iteration |-> 1,
            keyCount |-> 0, before |-> Shown])
    /\ UNCHANGED <<pageVars, notified, thrown, dropped>>
    /\ UNCHANGED <<browserVars, uploadVars, callVars, folderVars>>
    /\ UNCHANGED clientVars
    /\ requested' = Requested(p)

\* listByToken(p, key, continuationToken), called with a token of the Map
ListByToken(p, key) ==
    /\ ~MicrotaskReady
    /\ Initialized
    /\ GetToken(continuationTokens, key) # NoToken
    /\ listings' = Append(listings,
           [fn |-> "listByToken", path |-> p, owner |-> OwnedBy("user", 0),
            page |-> key, saveNextToken |-> FALSE,
            token |-> GetToken(continuationTokens, key), iteration |-> 1,
            before |-> Shown])
    /\ UNCHANGED <<pageVars, notified, thrown, dropped>>
    /\ UNCHANGED <<browserVars, uploadVars, callVars, folderVars>>
    /\ UNCHANGED clientVars
    /\ requested' = Requested(p)

\* clearTokens()
ClearTokens ==
    /\ ~MicrotaskReady
    /\ continuationTokens # NoTokens
    /\ continuationTokens' = NoTokens
    /\ UNCHANGED <<cursor, viewVars, listings, notified, thrown, dropped>>
    /\ UNCHANGED <<browserVars, uploadVars, callVars, folderVars>>
    /\ UNCHANGED <<clientVars, requested>>

\* ---------------------------------------------- sortedFiles, displayedObjects

Max(a, b) == IF a > b THEN a ELSE b

\* a.Key.localeCompare(b.Key)
localeCompare(s, t) == IF StrLess(s, t) THEN -1 ELSE IF StrLess(t, s) THEN 1 ELSE 0

\* no row is before another: the rows stay in the order of files
CompareNothing(heading, a, b) == 0

\* fns[state.headingSorted](a, b)
CompareBy(heading, a, b) ==
    CASE heading = "date" -> a.LastModified - b.LastModified
      [] heading = "size" -> a.Size - b.Size
      [] OTHER -> localeCompare(a.Key, b.Key)

\* Array.prototype.sort(fn): the sort is stable
RECURSIVE InsertBy(_, _, _)
InsertBy(heading, sorted, x) ==
    IF sorted = << >> THEN <<x>>
    ELSE IF CompareBy(heading, x, sorted[Len(sorted)]) < 0
    THEN Append(InsertBy(heading, SubSeq(sorted, 1, Len(sorted) - 1), x),
                sorted[Len(sorted)])
    ELSE Append(sorted, x)

RECURSIVE SortBy(_, _)
SortBy(heading, q) ==
    IF q = << >> THEN << >>
    ELSE InsertBy(heading, SortBy(heading, SubSeq(q, 1, Len(q) - 1)), q[Len(q)])

\* Array.prototype.reverse()
Reverse(q) == [i \in 1..Len(q) |-> q[Len(q) + 1 - i]]

IsFolder(row) == row.type = "folder"
IsFile(row) == row.type = "file"

\* the folders and then the files of q
FoldersFirst(q) == FilterSeq(q, IsFolder) \o FilterSeq(q, IsFile)

\* sortedFiles: a sorted copy of rows, reversed unless the order is ascending,
\* its folders and then its files
SortedRows(rows, heading, order) ==
    FoldersFirst(IF order # "asc" THEN Reverse(SortBy(heading, rows))
                 ELSE SortBy(heading, rows))

sortedFiles == SortedRows(files, headingSorted, orderBy)

\* Array.prototype.slice(start, end): a negative index counts from the end
SliceIndex(q, n) == IF n < 0 THEN Max(Len(q) + n, 0) ELSE Min(n, Len(q))

JsSlice(q, start, end) == SubSeq(q, SliceIndex(q, start) + 1, SliceIndex(q, end))

\* the end of the slice is not reduced by the start of the active range
AbsoluteEnd(c, range) == c.limit * c.page

\* displayedObjects: end and start of the slice of sortedFiles
DisplayedEnd(c, range) ==
    IF range.end # MAX_KEY_COUNT
    THEN c.limit * c.page - range.start
    ELSE c.limit * c.page

DisplayedStart(c, range) == DisplayedEnd(c, range) - c.limit

displayedObjects ==
    JsSlice(sortedFiles, DisplayedStart(cursor, activeObjectsRange),
            DisplayedEnd(cursor, activeObjectsRange))

\* sort(headingSorted)
Sort(heading) ==
    /\ ~MicrotaskReady
    /\ orderBy' = IF headingSorted = heading
                  THEN (IF orderBy = "asc" THEN "desc" ELSE "asc")
                  ELSE "asc"
    /\ headingSorted' = heading
    /\ UNCHANGED <<continuationTokens, cursor, totalObjectCount, activeObjectsRange>>
    /\ UNCHANGED <<listings, notified, thrown, dropped>>
    /\ UNCHANGED <<browserVars, uploadVars, callVars, folderVars>>
    /\ UNCHANGED <<clientVars, requested>>

\* setCursor(cursor)
SetCursor(c) ==
    /\ ~MicrotaskReady
    /\ cursor' = c
    /\ UNCHANGED <<continuationTokens, viewVars, listings, notified, thrown, dropped>>
    /\ UNCHANGED <<browserVars, uploadVars, callVars, folderVars>>
    /\ UNCHANGED <<clientVars, requested>>

\* --------------------------------------------------- the client, the selection

\* init(...): the client is made, path and files are reset
InitClient ==
    /\ ~MicrotaskReady
    /\ s3' = "S3Client"
    /\ path' = Empty
    /\ files' = << >>
    /\ UNCHANGED <<bucket, mode, selectedFiles, listings, pageVars, notified, thrown, dropped>>
    /\ UNCHANGED requested
    /\ UNCHANGED <<uploadVars, callVars, folderVars>>

\* clear(), called while no upload is chained: the client is dropped and the
\* state is what it was after construction
Clear ==
    /\ ~MicrotaskReady
    /\ steps = << >>
    /\ s3' = NullClient
    /\ path' = Empty
    /\ files' = << >>
    /\ cursor' = InitialCursor
    /\ continuationTokens' = NoTokens
    /\ totalObjectCount' = 0
    /\ activeObjectsRange' = InitialRange
    /\ headingSorted' = "name"
    /\ orderBy' = "asc"
    /\ uploading' = << >>
    /\ selectedFiles' = << >>
    /\ filesToBeDeleted' = {}
    /\ objectPathForModal' = Empty
    /\ mode' = IF mode = "versions" THEN "std" ELSE mode
    /\ UNCHANGED <<bucket, entries, steps, pendingFiles, listings, notified, thrown, dropped>>
    /\ UNCHANGED <<calls, folderVars, requested>>

\* updateSelectedFiles(files)
UpdateSelectedFiles(selected) ==
    /\ ~MicrotaskReady
    /\ selectedFiles' = selected
    /\ UNCHANGED <<s3, requested, listings, pageVars, notified, thrown, dropped>>
    /\ UNCHANGED <<browserVars, uploadVars, callVars, folderVars>>

\* the operations whose first statement is assertIsInitialized(state)
AssertingOps ==
    {"initList", "listByToken", "listCustom", "listAllVersions", "countVersions",
     "upload", "createFolder", "restoreObject", "deleteObject",
     "deleteObjectWithVersions", "deleteFolder", "deleteFolderWithVersions",
     "getDownloadLink"}

\* one of them is called while state.s3 is null: assertIsInitialized throws
CalledUninitialized(op) ==
    /\ ~MicrotaskReady
    /\ ~Initialized
    /\ thrown' = UninitializedError
    /\ UNCHANGED <<clientVars, requested, listings, pageVars, notified, dropped>>
    /\ UNCHANGED <<browserVars, uploadVars, callVars, folderVars>>

\* ------------------------------------------------- createFolder, deleteObject

FolderNames == {<<"d">>}

\* createFolder(name): the PutObjectCommand is sent
CreateFolder(name) ==
    /\ ~MicrotaskReady
    /\ Initialized
    /\ Len(calls) < MaxOps
    /\ calls' = Append(calls,
           [op |-> "createFolder", pc |-> "put",
            key |-> path \o name \o <<Slash, PlaceholderName>>])
    /\ UNCHANGED <<filesToBeDeleted, listings, pageVars, notified, thrown, browserVars, uploadVars>>
    /\ UNCHANGED <<dropped, folderVars>>
    /\ UNCHANGED <<clientVars, requested>>

\* createFolder: the put is answered; the refresh is awaited only in the version view
PutReturns(i, ok) ==
    /\ ~MicrotaskReady
    /\ calls[i].op = "createFolder"
    /\ calls[i].pc = "put"
    /\ IF ok
       THEN /\ bucket' = PutObject(bucket, calls[i].key, 0)
            /\ IF mode = "versions"
               THEN /\ StartRefresh(OwnedBy("call", i))
                    /\ calls' = [calls EXCEPT ![i].pc = "refresh"]
               ELSE /\ StartRefresh(OwnedBy("nobody", 0))
                    /\ calls' = [calls EXCEPT ![i].pc = "done"]
       ELSE /\ calls' = [calls EXCEPT ![i].pc = "failed"]
            /\ UNCHANGED <<bucket, listings, pageVars>>
    /\ UNCHANGED <<files, path, mode, filesToBeDeleted, notified, thrown, uploadVars>>
    /\ UNCHANGED <<dropped, folderVars>>
    /\ UNCHANGED <<clientVars, requested>>

\* the rows the user can delete with deleteObject
FileRows == {files[i] : i \in {j \in 1..Len(files) : files[j].type = "file"}}

\* deleteObject(path, file, false, shouldRefresh): addFileToBeDeleted, and the
\* DeleteObjectCommand is sent
DeleteObject(file, shouldRefresh) ==
    /\ ~MicrotaskReady
    /\ Initialized
    /\ Len(calls) < MaxOps
    /\ filesToBeDeleted' = filesToBeDeleted \cup {CompositeKey(file)}
    /\ calls' = Append(calls,
           [op |-> "deleteObject", pc |-> "delete", key |-> path \o file.Key,
            file |-> file, shouldRefresh |-> shouldRefresh])
    /\ deleteCalls' = deleteCalls + 1
    /\ UNCHANGED <<listings, pageVars, notified, thrown, browserVars, uploadVars, dropped>>
    /\ UNCHANGED <<versions, folderCall, pool>>
    /\ UNCHANGED <<clientVars, requested>>

\* no filter: the entry of the deleted key stays
uploadingKept(key) == uploading

\* state.uploading.filter(f => f.Key !== key)
uploadingWithout(key) ==
    LET kept(id) == entries[id].Key # key
    IN  FilterSeq(uploading, kept)

\* deleteObject: the delete is answered
DeleteReturns(i, ok) ==
    LET call == calls[i]
    IN  /\ ~MicrotaskReady
        /\ call.op = "deleteObject"
        /\ call.pc = "delete"
        /\ IF ~ok
           THEN /\ calls' = [calls EXCEPT ![i].pc = "failed"]
                /\ UNCHANGED <<bucket, uploading, listings, pageVars, files, filesToBeDeleted>>
           ELSE /\ bucket' = RemoveObject(bucket, call.key)
                /\ uploading' = uploadingWithout(call.key)
                /\ IF call.shouldRefresh
                   THEN /\ StartRefresh(OwnedBy("call", i))
                        /\ calls' = [calls EXCEPT ![i].pc = "refresh"]
                        /\ UNCHANGED <<files, filesToBeDeleted>>
                   ELSE /\ files' = removeFileRows(files, call.file)
                        /\ filesToBeDeleted' = filesToBeDeleted \ {CompositeKey(call.file)}
                        /\ calls' = [calls EXCEPT ![i].pc = "done"]
                        /\ UNCHANGED <<listings, pageVars>>
        /\ UNCHANGED <<path, mode, entries, steps, pendingFiles, objectPathForModal>>
        /\ UNCHANGED <<notified, thrown, dropped, folderVars>>
        /\ UNCHANGED <<clientVars, requested>>

\* ------------------------------------------ deleteFolder(WithVersions)

\* the rows the user can delete with deleteFolder
FolderRows == {files[i] : i \in {j \in 1..Len(files) : files[j].type = "folder"}}

\* recurse(path.length > 0 ? path + file.Key : file.Key + '/')
FolderPrefix(file, p) == IF Len(p) > 0 THEN p \o file.Key ELSE file.Key \o <<Slash>>

\* what the backend holds under a prefix: keys, or versions and delete markers
HeldUnder(variant, prefix) ==
    IF variant = "plain"
    THEN {<<k, "none">> : k \in {x \in Keys(bucket) : StartsWith(x, prefix)}}
    ELSE {<<r.Key, r.VersionId>> : r \in {x \in AllVersions : StartsWith(x.Key, prefix)}}

\* the call of deleteFolder or deleteFolderWithVersions, its first listing sent
FolderCall(variant, file, shouldRefresh) ==
    [pc |-> "listing", variant |-> variant, file |-> file,
     shouldRefresh |-> shouldRefresh,
     prefix |-> FolderPrefix(file, path),
     held |-> HeldUnder(variant, FolderPrefix(file, path)),
     level |-> FolderPrefix(file, path), frames |-> << >>]

\* deleteFolder(file, path, shouldRefresh) and deleteFolderWithVersions(file, path):
\* addFileToBeDeleted, and the first listing of recurse() is sent. The call
\* record keeps what the folder held at the call, for the properties.
FolderCallStarts(variant, file, shouldRefresh) ==
    /\ ~MicrotaskReady
    /\ Initialized
    /\ folderCall.pc = "idle"
    /\ filesToBeDeleted' = filesToBeDeleted \cup {CompositeKey(file)}
    /\ folderCall' = FolderCall(variant, file, shouldRefresh)
    /\ UNCHANGED <<calls, listings, pageVars, notified, thrown, dropped, browserVars, uploadVars>>
    /\ UNCHANGED <<versions, pool, deleteCalls>>
    /\ UNCHANGED <<clientVars, requested>>

DeleteFolder(file, shouldRefresh) == FolderCallStarts("plain", file, shouldRefresh)

DeleteFolderWithVersions(file) == FolderCallStarts("versions", file, FALSE)

\* The pool of a level: Contents, the threads, and two counts kept for the
\* properties (the entries the response held, the deletes sent for them).
\* Promise.all([thread(), thread(), thread()]): each thread() runs to its first
\* await, that is, pops an entry and sends its delete, or ends at once
RECURSIVE StartThreads(_, _)
StartThreads(Contents, n) ==
    IF n = 0 THEN [Contents |-> Contents, threads |-> << >>, Listed |-> 0, issued |-> 0]
    ELSE IF Contents = << >>
    THEN LET rest == StartThreads(Contents, n - 1)
         IN  [rest EXCEPT !.threads = <<[st |-> "done"]>> \o @]
    ELSE LET rest == StartThreads(SubSeq(Contents, 1, Len(Contents) - 1), n - 1)
         IN  [rest EXCEPT !.threads =
                  <<[st |-> "deleting", file |-> Contents[Len(Contents)]]>> \o @]

Deleting(p) == {t \in 1..Len(p.threads) : p.threads[t].st = "deleting"}

\* no sub-prefix is recursed into
NoPrefix(frames) == [done |-> TRUE]

\* the for loops over CommonPrefixes of the recurse() calls in progress: the next
\* prefix to recurse into, if there is one
RECURSIVE NextPrefix(_)
NextPrefix(frames) ==
    IF frames = << >> THEN [done |-> TRUE]
    ELSE LET last == frames[Len(frames)]
             outer == SubSeq(frames, 1, Len(frames) - 1)
         IN  IF last = << >> THEN NextPrefix(outer)
             ELSE [done |-> FALSE, prefix |-> Head(last),
                   frames |-> Append(outer, Tail(last))]

\* All three threads have ended: recurse() goes on with the next sub-prefix, or
\* the call ends with removeFile and, for deleteFolder, its refresh.
AfterPool(frames) ==
    LET next == NextPrefix(frames)
    IN  IF ~next.done
        THEN /\ folderCall' = [folderCall EXCEPT !.pc = "listing",
                                   !.level = next.prefix, !.frames = next.frames]
             /\ UNCHANGED <<files, filesToBeDeleted, listings, pageVars>>
        ELSE /\ files' = removeFileRows(files, folderCall.file)
             /\ filesToBeDeleted' = filesToBeDeleted \ {CompositeKey(folderCall.file)}
             /\ IF folderCall.shouldRefresh
                THEN /\ StartRefresh(OwnedBy("folder", 0))
                     /\ folderCall' = [folderCall EXCEPT !.pc = "refresh", !.frames = << >>]
                ELSE /\ folderCall' = [folderCall EXCEPT !.pc = "resolved", !.frames = << >>]
                     /\ UNCHANGED <<listings, pageVars>>

\* what thread() hands to deleteObject('', file, true, shouldRefresh)
PlainFile(object) == [Key |-> object.Key, VersionId |-> "none"]
VersionFile(version) == [Key |-> version.Key, VersionId |-> version.VersionId]

\* recurse(): the listing of a level is answered
FolderListReturns(ok) ==
    LET Contents ==
            IF folderCall.variant = "plain"
            THEN MapSeq(ListObjects(bucket, folderCall.level, BackendMaxKeys).Contents,
                        PlainFile)
            ELSE LET r == ListObjectVersions(folderCall.level, BackendMaxKeys)
                 IN  MapSeq(r.Versions \o r.DeleteMarkers, VersionFile)
        CommonPrefixes ==
            IF folderCall.variant = "plain"
            THEN ListObjects(bucket, folderCall.level, BackendMaxKeys).CommonPrefixes
            ELSE ListObjectVersions(folderCall.level, BackendMaxKeys).CommonPrefixes
        threads == StartThreads(Contents, PoolSize)
        started == [threads EXCEPT !.Listed = Len(Contents),
                                   !.issued = Cardinality(Deleting(threads))]
        frames == Append(folderCall.frames, CommonPrefixes)
    IN  /\ ~MicrotaskReady
        /\ folderCall.pc = "listing"
        /\ IF ~ok
           THEN /\ folderCall' = [folderCall EXCEPT !.pc = "rejected"]
                /\ UNCHANGED <<pool, deleteCalls, files, filesToBeDeleted, listings, pageVars>>
           ELSE /\ pool' = started
                /\ deleteCalls' = deleteCalls + Cardinality(Deleting(started))
                /\ IF Deleting(started) = {}
                   THEN AfterPool(frames)
                   ELSE /\ folderCall' = [folderCall EXCEPT !.pc = "pool",
                                                            !.frames = frames]
                        /\ UNCHANGED <<files, filesToBeDeleted, listings, pageVars>>
        /\ UNCHANGED <<path, bucket, mode, calls, notified, thrown, dropped, uploadVars>>
        /\ UNCHANGED versions
        /\ UNCHANGED <<clientVars, requested>>

\* DeleteObjectCommand({ Key, VersionId }) at the backend
DeletedBucket(file) ==
    IF file.VersionId \in {"none", CurrentVersion}
    THEN RemoveObject(bucket, file.Key) ELSE bucket

DeletedVersions(file) ==
    {r \in versions : ~(r.Key = file.Key /\ r.VersionId = file.VersionId)}

\* a rejection that ends the other threads of the pool too
PoolAborts(p, t) ==
    [p EXCEPT !.threads = [u \in 1..Len(p.threads) |->
                              IF u = t THEN [st |-> "failed"] ELSE [st |-> "done"]]]

\* thread(): deleteObject rejects, and so does this thread(); the loops of the
\* other threads go on
ThreadFails(p, t) == [p EXCEPT !.threads[t] = [st |-> "failed"]]

\* thread(): the delete of its entry is answered; deleteObject ends, and the
\* loop pops the next entry or the thread ends. Listed and issued count the
\* entries of the level's response and the deletes sent for them.
FolderDeleteReturns(t, ok) ==
    LET thread == pool.threads[t]
        more == pool.Contents # << >>
        popped ==
            IF more
            THEN [pool EXCEPT !.Contents = SubSeq(pool.Contents, 1, Len(pool.Contents) - 1),
                              !.threads[t] = [st |-> "deleting",
                                              file |-> pool.Contents[Len(pool.Contents)]],
                              !.issued = @ + 1]
            ELSE [pool EXCEPT !.threads[t] = [st |-> "done"]]
    IN  /\ ~MicrotaskReady
        /\ thread.st = "deleting"
        /\ IF ~ok
           THEN /\ pool' = ThreadFails(pool, t)
                /\ folderCall' = [folderCall EXCEPT !.pc = "rejected"]
                /\ UNCHANGED <<bucket, versions, uploading, deleteCalls>>
                /\ UNCHANGED <<files, filesToBeDeleted, listings, pageVars>>
           ELSE /\ bucket' = DeletedBucket(thread.file)
                /\ versions' = DeletedVersions(thread.file)
                /\ uploading' = uploadingWithout(thread.file.Key)
                /\ pool' = popped
                /\ deleteCalls' = IF more THEN deleteCalls + 1 ELSE deleteCalls
                /\ IF folderCall.pc = "pool" /\ Deleting(popped) = {}
                   THEN AfterPool(folderCall.frames)
                   ELSE UNCHANGED <<folderCall, files, filesToBeDeleted, listings, pageVars>>
        /\ UNCHANGED <<path, mode, entries, steps, pendingFiles, objectPathForModal>>
        /\ UNCHANGED <<calls, notified, thrown, dropped>>
        /\ UNCHANGED <<clientVars, requested>>

\* ------------------------------------- deleteObjectWithVersions, deleteSelected

\* the VersionIds of the versions and delete markers a response lists
VersionIdOf(version) == version.VersionId

ListedVersionIds(prefix) ==
    LET r == ListObjectVersions(prefix, BackendMaxKeys)
    IN  MapSeq(r.Versions \o r.DeleteMarkers, VersionIdOf)

\* the end of deleteObjectWithVersions and of deleteObject without refresh:
\* the filter of state.uploading, and removeFile
ObjectCallEnds(i) ==
    /\ uploading' = uploadingWithout(calls[i].key)
    /\ files' = removeFileRows(files, calls[i].file)
    /\ filesToBeDeleted' = filesToBeDeleted \ {CompositeKey(calls[i].file)}

\* deleteObjectWithVersions: the listing of the versions is answered, and a
\* DeleteObjectCommand is sent for every version and delete marker it holds
VersionsListReturns(i, ok) ==
    LET call == calls[i]
        ids == ListedVersionIds(call.key)
    IN  /\ ~MicrotaskReady
        /\ call.op = "deleteObjectWithVersions"
        /\ call.pc = "list"
        /\ IF ~ok
           THEN /\ calls' = [calls EXCEPT ![i].pc = "failed"]
                /\ UNCHANGED <<uploading, files, filesToBeDeleted, deleteCalls>>
           ELSE IF ids = << >>
           THEN /\ calls' = [calls EXCEPT ![i].pc = "done"]
                /\ ObjectCallEnds(i)
                /\ UNCHANGED deleteCalls
           ELSE /\ calls' = [calls EXCEPT ![i].pc = "deleting", ![i].pending = ids]
                /\ deleteCalls' = deleteCalls + Len(ids)
                /\ UNCHANGED <<uploading, files, filesToBeDeleted>>
        /\ UNCHANGED <<path, bucket, mode, entries, steps, pendingFiles, objectPathForModal>>
        /\ UNCHANGED <<listings, pageVars, notified, thrown, dropped>>
        /\ UNCHANGED <<versions, folderCall, pool>>
        /\ UNCHANGED <<clientVars, requested>>

\* deleteObjectWithVersions: one of its deletes is answered. Promise.all
\* rejects with the first delete that fails; the call goes on to the filter and
\* removeFile when the last of them has succeeded.
VersionDeleteReturns(i, n, ok) ==
    LET call == calls[i]
        deleted == [Key |-> call.key, VersionId |-> call.pending[n]]
        rest == Remove(call.pending, n)
        ends == ok /\ call.pc = "deleting" /\ rest = << >>
    IN  /\ ~MicrotaskReady
        /\ call.op = "deleteObjectWithVersions"
        /\ call.pc \in {"deleting", "failed"}
        /\ n \in 1..Len(call.pending)
        /\ calls' = [calls EXCEPT ![i].pending = rest,
                                  ![i].pc = IF ~ok THEN "failed"
                                            ELSE IF ends THEN "done" ELSE @]
        /\ bucket' = IF ok THEN DeletedBucket(deleted) ELSE bucket
        /\ versions' = IF ok THEN DeletedVersions(deleted) ELSE versions
        /\ IF ends THEN ObjectCallEnds(i)
           ELSE UNCHANGED <<uploading, files, filesToBeDeleted>>
        /\ UNCHANGED <<path, mode, entries, steps, pendingFiles, objectPathForModal>>
        /\ UNCHANGED <<listings, pageVars, notified, thrown, dropped>>
        /\ UNCHANGED <<folderCall, pool, deleteCalls>>
        /\ UNCHANGED <<clientVars, requested>>

\* the composite keys addFileToBeDeleted(...selected) adds
KeysOf(selected) == {CompositeKey(selected[n]) : n \in 1..Len(selected)}

IsFileRow(row) == row.type = "file"
IsFolderRow(row) == row.type = "folder"

\* a deleteObject that refreshes the listing
RefreshingCall(file, withVersions) ==
    [op |-> "deleteObject", pc |-> "delete", key |-> path \o file.Key,
     file |-> file, shouldRefresh |-> TRUE]

\* the call deleteSelected makes for a selected file: deleteObject(state.path,
\* file, false, false), or deleteObjectWithVersions(state.path, file)
SelectedCall(file, withVersions) ==
    IF withVersions
    THEN [op |-> "deleteObjectWithVersions", pc |-> "list", key |-> path \o file.Key,
          file |-> file, pending |-> << >>]
    ELSE [op |-> "deleteObject", pc |-> "delete", key |-> path \o file.Key,
          file |-> file, shouldRefresh |-> FALSE]

\* the calls deleteSelected makes for the selected files
SelectedCalls(selected, withVersions) ==
    LET fileRows == FilterSeq(selected, IsFileRow)
    IN  [n \in 1..Len(fileRows) |-> SelectedCall(fileRows[n], withVersions)]

\* the call deleteSelected makes for a selected folder: deleteFolder(file,
\* state.path, false), or deleteFolderWithVersions(file, state.path)
SelectedFolderCall(selected, withVersions) ==
    LET folderRows == FilterSeq(selected, IsFolderRow)
    IN  IF folderRows = << >> THEN folderCall
        ELSE FolderCall(IF withVersions THEN "versions" ELSE "plain",
                        folderRows[1], FALSE)

\* deleteSelected(withVersions): addFileToBeDeleted(...state.selectedFiles), then
\* one call per selected entry, each run to its first await: the
\* DeleteObjectCommand of deleteObject, the listing of the three others.
\* Without the client each call throws at its assertIsInitialized and the
\* Promise.all rejects with the first of them, or resolves when nothing is
\* selected. The model follows at most MaxOps file calls and one folder call.
DeleteSelected(withVersions) ==
    /\ ~MicrotaskReady
    /\ filesToBeDeleted' = filesToBeDeleted \cup KeysOf(selectedFiles)
    /\ IF ~Initialized
       THEN /\ thrown' =
                  IF selectedFiles = << >> THEN NoError ELSE UninitializedError
            /\ UNCHANGED <<calls, deleteCalls, folderCall>>
       ELSE /\ Len(calls) + Len(FilterSeq(selectedFiles, IsFileRow)) <= MaxOps
            /\ Len(FilterSeq(selectedFiles, IsFolderRow)) <= 1
            /\ FilterSeq(selectedFiles, IsFolderRow) # << >> => folderCall.pc = "idle"
            /\ calls' = calls \o SelectedCalls(selectedFiles, withVersions)
            /\ folderCall' = SelectedFolderCall(selectedFiles, withVersions)
            /\ deleteCalls' =
                   IF withVersions THEN deleteCalls
                   ELSE deleteCalls + Len(FilterSeq(selectedFiles, IsFileRow))
            /\ thrown' = NoError
    /\ UNCHANGED <<clientVars, requested, listings, pageVars, notified, dropped>>
    /\ UNCHANGED <<browserVars, uploadVars, versions, pool>>

\* ---------------------------------------------------------- specifications

vars == <<files, path, bucket, mode, entries, uploading, steps, pendingFiles,
          objectPathForModal, listings, notified, thrown, dropped, calls,
          filesToBeDeleted, versions, folderCall, pool, deleteCalls,
          continuationTokens, cursor, totalObjectCount, activeObjectsRange,
          headingSorted, orderBy, s3, selectedFiles, requested>>

\* after init(): an empty listing of the root of an empty bucket
Init ==
    /\ files = << >>
    /\ path = Empty
    /\ bucket = {}
    /\ mode \in {"std", "alt", "versions"}
    /\ entries = << >>
    /\ uploading = << >>
    /\ steps = << >>
    /\ pendingFiles = << >>
    /\ objectPathForModal = Empty
    /\ listings = << >>
    /\ notified = {}
    /\ thrown = NoError
    /\ dropped = [handled |-> TRUE]
    /\ calls = << >>
    /\ filesToBeDeleted = {}
    /\ versions = {}
    /\ folderCall = NoFolderCall
    /\ pool = NoPool
    /\ deleteCalls = 0
    /\ continuationTokens = NoTokens
    /\ cursor = InitialCursor
    /\ totalObjectCount = 0
    /\ activeObjectsRange = InitialRange
    /\ headingSorted = "name"
    /\ orderBy = "asc"
    /\ s3 = "S3Client"
    /\ selectedFiles = << >>
    /\ requested = << >>

\* what one upload() call traverses: one file or two
Batches == [{1} -> TraverseResults] \cup [{1, 2} -> TraverseResults]

UploadKeys == {entries[i].Key : i \in 1..Len(entries)}

\* upload() is called while fewer than max files have been handed to it
UploadCalled(max) ==
    \E batch \in Batches, ignoreDuplicate \in BOOLEAN :
        /\ Len(entries) + Len(batch) <= max
        /\ Upload(batch, ignoreDuplicate)
        /\ UNCHANGED dropped

ChainRuns ==
    \/ UploadEnqueue
    \/ \E id \in 1..Len(entries), ok \in BOOLEAN : TransferEnds(id, ok)
    \/ \E key \in UploadKeys : CancelUpload(key)
    \/ \E k \in 1..Len(steps) : StepStarts(k)
    \/ \E k \in 1..Len(steps) : StepAfterTransfer(k)
    \/ \E i \in 1..Len(listings), ok \in BOOLEAN : ListingReturns(i, ok)

Next == UploadCalled(MaxUploads) \/ ChainRuns

Spec == Init /\ [][Next]_vars

\* the same store with one more file, so that a link of the chain can be waiting
\* behind a running one while its key is cancelled and uploaded again
NextBusy == UploadCalled(MaxUploads + 1) \/ ChainRuns

SpecBusy == Init /\ [][NextBusy]_vars

\* Fairness: a ready continuation runs, and the backend answers every call (a
\* transfer and a listing end, well or badly) however often the user calls the
\* store in between. The user owes no further call.
Fairness ==
    /\ WF_vars(UploadEnqueue)
    /\ \A k \in 1..MaxUploads :
          WF_vars(k <= Len(steps) /\ StepStarts(k))
            /\ WF_vars(k <= Len(steps) /\ StepAfterTransfer(k))
    /\ \A id \in 1..MaxUploads :
          SF_vars(id <= Len(entries) /\ \E ok \in BOOLEAN : TransferEnds(id, ok))
    /\ SF_vars(\E i \in 1..Len(listings), ok \in BOOLEAN : ListingReturns(i, ok))

FairSpec == Spec /\ Fairness

\* createFolder and deleteObject next to the uploads
FolderCalled == \E name \in FolderNames : CreateFolder(name)

ObjectDeleted == \E file \in FileRows, shouldRefresh \in BOOLEAN : DeleteObject(file, shouldRefresh)

CallsRun ==
    \/ \E i \in 1..Len(calls), ok \in BOOLEAN : PutReturns(i, ok)
    \/ \E i \in 1..Len(calls), ok \in BOOLEAN : DeleteReturns(i, ok)

NextRefresh ==
    UploadCalled(MaxUploads) \/ ChainRuns \/ FolderCalled \/ ObjectDeleted \/ CallsRun

SpecRefresh == Init /\ [][NextRefresh]_vars

\* deleteObject next to as many uploads
ObjectsRun == \E i \in 1..Len(calls), ok \in BOOLEAN : DeleteReturns(i, ok)

NextObjects == UploadCalled(MaxOps) \/ ChainRuns \/ ObjectDeleted \/ ObjectsRun

SpecObjects == Init /\ [][NextObjects]_vars

\* upload() on a drop event, in a folder that lists four files and the folder d
DroppedItems ==
    {[path |-> Empty, name |-> <<n>>, body |-> [gib |-> 0, rem |-> 1]] :
        n \in {"a", "b", "c", "e", "g"}}
      \cup {[path |-> <<d, Slash>>, name |-> <<"a">>, body |-> [gib |-> 0, rem |-> 1]] :
               d \in {"d", "s"}}

ListedBucket ==
    {[Key |-> k, LastModified |-> 0, Size |-> 0] :
        k \in {<<"a">>, <<"b">>, <<"c">>, <<"e">>, <<"d", Slash, "a">>}}

\* the batches of at most MaxDropped files, no file twice
DroppedBatches ==
    {batch \in UNION {[1..n -> DroppedItems] : n \in 0..MaxDropped} :
        \A i, j \in 1..Len(batch) : i # j => batch[i] # batch[j]}

InitBatches(batches) ==
    /\ bucket = ListedBucket
    /\ path = Empty
    /\ mode = "std"
    /\ files = ListingRows("initList", Empty)
    /\ dropped \in {[handled |-> FALSE, batch |-> batch, ignoreDuplicate |-> ign,
                      inspected |-> 0] :
                       batch \in batches, ign \in BOOLEAN}
    /\ entries = << >>
    /\ uploading = << >>
    /\ steps = << >>
    /\ pendingFiles = << >>
    /\ objectPathForModal = Empty
    /\ listings = << >>
    /\ notified = {}
    /\ thrown = NoError
    /\ calls = << >>
    /\ filesToBeDeleted = {}
    /\ versions = {}
    /\ folderCall = NoFolderCall
    /\ pool = NoPool
    /\ deleteCalls = 0
    /\ continuationTokens = NoTokens
    /\ cursor = InitialCursor
    /\ totalObjectCount = 0
    /\ activeObjectsRange = InitialRange
    /\ headingSorted = "name"
    /\ orderBy = "asc"
    /\ s3 = "S3Client"
    /\ selectedFiles = << >>
    /\ requested = << >>

InitDropped == InitBatches(DroppedBatches)

\* the files the traversal of the drop event yields to the first loop of upload()
Traversed(batch, ignoreDuplicate) ==
    TraverseLoop([i \in 1..Len(files) |-> files[i].Key], batch, ignoreDuplicate).inspected

UploadDropped ==
    /\ ~dropped.handled
    /\ Upload(dropped.batch, dropped.ignoreDuplicate)
    /\ dropped' = [dropped EXCEPT !.handled = TRUE,
                                  !.inspected = Traversed(dropped.batch,
                                                          dropped.ignoreDuplicate)]

NextDropped == UploadDropped \/ UploadEnqueue

SpecDropped == InitDropped /\ [][NextDropped]_vars

\* upload() on a drop event of about a hundred files: files of names that are
\* not listed, and listed names at some places of the traversal
NameLetters == <<"a", "b", "c", "d", "e", "g", "s">>

NameLetter(n) == NameLetters[(n % Len(NameLetters)) + 1]

UnlistedItem(i) ==
    [path |-> Empty,
     name |-> <<"g", NameLetter(i \div (Len(NameLetters) * Len(NameLetters))),
                NameLetter(i \div Len(NameLetters)), NameLetter(i)>>,
     body |-> [gib |-> 0, rem |-> 1]]

\* a file of a listed name, or a file of the listed folder d
ListedLetters == <<"a", "b", "c", "e">>

ListedItem(i) ==
    [path |-> IF i % 2 = 0 THEN <<"d", Slash>> ELSE Empty,
     name |-> IF i % 2 = 0 THEN UnlistedItem(i).name
              ELSE <<ListedLetters[(i % Len(ListedLetters)) + 1]>>,
     body |-> [gib |-> 0, rem |-> 1]]

LongBatch(n, listedAt) ==
    [i \in 1..n |-> IF i \in listedAt THEN ListedItem(i) ELSE UnlistedItem(i)]

\* the places of the traversal where a listed name can be
ListedPlaces == {1, 2, MaxTraversed, MaxTraversed + 1, MaxTraversed + 2}

LongBatches ==
    {LongBatch(n, listedAt) :
        n \in (MaxTraversed - 1)..MaxCandidates, listedAt \in SUBSET ListedPlaces}

InitTraversed == InitBatches(LongBatches)

SpecTraversed == InitTraversed /\ [][NextDropped]_vars

\* One folder, "a", deleted once. It holds some objects directly, some one
\* level down under "s/", possibly one two levels down, and possibly a history
\* of earlier versions and a deleted object; the browser shows its parent.
FlatNames == <<PlaceholderName, "a", "b", "c", "d", "e", "g">>
NestedNames == <<PlaceholderName, "a", "b", "c">>

FolderKeys(base, n, m, deep) ==
    {base \o <<FlatNames[i]>> : i \in 1..n}
        \cup {base \o <<"s", Slash, NestedNames[i]>> : i \in 1..m}
        \cup (IF deep THEN {base \o <<"s", Slash, "s", Slash, "a">>} ELSE {})

FolderHistory(base) ==
    {[Key |-> base \o <<"a">>, VersionId |-> "v1", isDeleteMarker |-> FALSE,
      LastModified |-> 0],
     [Key |-> base \o <<"s", Slash, "e">>, VersionId |-> "v1", isDeleteMarker |-> TRUE,
      LastModified |-> 0],
     [Key |-> base \o <<"s", Slash, "e">>, VersionId |-> "v0", isDeleteMarker |-> FALSE,
      LastModified |-> 0]}

InitDelete ==
    /\ path \in {Empty, <<"d", Slash>>}
    /\ \E n \in 1..MaxFlat, m \in 0..MaxNested, deep \in BOOLEAN, history \in BOOLEAN :
          LET base == path \o <<"a", Slash>>
          IN  /\ bucket = {[Key |-> k, LastModified |-> 0, Size |-> 0] :
                              k \in FolderKeys(base, n, m, deep)}
              /\ versions = IF history THEN FolderHistory(base) ELSE {}
    /\ mode = "std"
    /\ files = ListingRows("initList", path)
    /\ dropped = [handled |-> TRUE]
    /\ entries = << >>
    /\ uploading = << >>
    /\ steps = << >>
    /\ pendingFiles = << >>
    /\ objectPathForModal = Empty
    /\ listings = << >>
    /\ notified = {}
    /\ thrown = NoError
    /\ calls = << >>
    /\ filesToBeDeleted = {}
    /\ folderCall = NoFolderCall
    /\ pool = NoPool
    /\ deleteCalls = 0
    /\ continuationTokens = NoTokens
    /\ cursor = InitialCursor
    /\ totalObjectCount = 0
    /\ activeObjectsRange = InitialRange
    /\ headingSorted = "name"
    /\ orderBy = "asc"
    /\ s3 = "S3Client"
    /\ selectedFiles = << >>
    /\ requested = << >>

FolderDeleted ==
    \/ \E file \in FolderRows, shouldRefresh \in BOOLEAN : DeleteFolder(file, shouldRefresh)
    \/ \E file \in FolderRows : DeleteFolderWithVersions(file)

FolderRuns ==
    \/ \E ok \in BOOLEAN : FolderListReturns(ok)
    \/ \E t \in 1..PoolSize, ok \in BOOLEAN :
          t <= Len(pool.threads) /\ FolderDeleteReturns(t, ok)
    \/ \E i \in 1..Len(listings), ok \in BOOLEAN : ListingReturns(i, ok)

NextDelete == FolderDeleted \/ FolderRuns

SpecDelete == InitDelete /\ [][NextDelete]_vars

\* The listings called one after the other on a bucket of six names at the
\* root, one of them the folder d, with earlier versions of b and the deleted
\* object a: three versions and a delete marker more recent than they are.
PagedKeys ==
    {<<"b">>, <<"c">>, <<"d", Slash>>, <<"d", Slash, PlaceholderName>>,
     <<"d", Slash, "a">>, <<"e">>, <<"g">>, <<"s">>}

\* modification times that do not follow the key order
PagedTime(k) == (CharRank(k[Len(k)]) * 2) % 3

PagedHistory ==
    {[Key |-> <<"a">>, VersionId |-> "v3", isDeleteMarker |-> TRUE, LastModified |-> 5],
     [Key |-> <<"a">>, VersionId |-> "v2", isDeleteMarker |-> FALSE, LastModified |-> 4],
     [Key |-> <<"a">>, VersionId |-> "v1", isDeleteMarker |-> FALSE, LastModified |-> 3],
     [Key |-> <<"a">>, VersionId |-> "v0", isDeleteMarker |-> FALSE, LastModified |-> 3],
     [Key |-> <<"b">>, VersionId |-> "v1", isDeleteMarker |-> TRUE, LastModified |-> 1],
     [Key |-> <<"b">>, VersionId |-> "v0", isDeleteMarker |-> FALSE, LastModified |-> 0]}

\* sizes that follow neither the key order nor the modification times
PagedSize(k) == (CharRank(k[Len(k)]) * 3) % 4

Paths == {Empty, <<"d", Slash>>}

\* the store initialised on a bucket that holds keys and history, nothing listed
InitListed(keys, history) ==
    /\ bucket = {[Key |-> k, LastModified |-> PagedTime(k), Size |-> PagedSize(k)] :
                    k \in keys}
    /\ versions = history
    /\ path = Empty
    /\ mode = "std"
    /\ files = << >>
    /\ dropped = [handled |-> TRUE]
    /\ entries = << >>
    /\ uploading = << >>
    /\ steps = << >>
    /\ pendingFiles = << >>
    /\ objectPathForModal = Empty
    /\ listings = << >>
    /\ notified = {}
    /\ thrown = NoError
    /\ calls = << >>
    /\ filesToBeDeleted = {}
    /\ folderCall = NoFolderCall
    /\ pool = NoPool
    /\ deleteCalls = 0
    /\ continuationTokens = NoTokens
    /\ cursor = InitialCursor
    /\ totalObjectCount = 0
    /\ activeObjectsRange = InitialRange
    /\ headingSorted = "name"
    /\ orderBy = "asc"
    /\ s3 = "S3Client"
    /\ selectedFiles = << >>
    /\ requested = << >>

InitPages == InitListed(PagedKeys, PagedHistory)

\* a listing is called while none is outstanding
ListingCalled ==
    /\ listings = << >>
    /\ \/ \E p \in Paths, page \in 1..MaxPage, save \in BOOLEAN : ListCustom(p, page, save)
       \/ \E p \in Paths, page \in 1..MaxPage, save \in BOOLEAN : ListAllVersions(p, page, save)
       \/ \E p \in Paths : InitList(p)
       \/ \E p \in Paths, e \in continuationTokens : ListByToken(p, e.key)
       \/ ClearTokens

ListingAnswered == \E i \in 1..Len(listings), ok \in BOOLEAN : ListingReturns(i, ok)

NextPages == ListingCalled \/ ListingAnswered

SpecPages == InitPages /\ [][NextPages]_vars

\* a listing of a first page is called while none is outstanding
FirstPageCalled ==
    /\ listings = << >>
    /\ \/ \E p \in Paths : ListCustom(p, 1, TRUE)
       \/ \E p \in Paths : ListAllVersions(p, 1, TRUE)
       \/ \E p \in Paths : InitList(p)

\* the listings, and deleteObject on the rows they show
NextShown == FirstPageCalled \/ ListingAnswered \/ ObjectDeleted \/ ObjectsRun

\* a bucket of three names at the root, one of them the folder d
ShownKeys ==
    {<<"a">>, <<"b">>, <<"d", Slash, PlaceholderName>>, <<"d", Slash, "a">>,
     <<"d", Slash, "b">>}

ShownHistory ==
    {[Key |-> <<"a">>, VersionId |-> "v1", isDeleteMarker |-> FALSE, LastModified |-> 3],
     [Key |-> <<"d", Slash, "c">>, VersionId |-> "v1", isDeleteMarker |-> TRUE,
      LastModified |-> 2]}

InitShown == InitListed(ShownKeys, ShownHistory)

\* the listings and deleteObject on that bucket, the folder d holding one object
InitRows == InitListed(ShownKeys \ {<<"d", Slash, "b">>}, ShownHistory)

SpecShown == InitRows /\ [][NextShown]_vars

\* Listings of first pages called while earlier ones are outstanding, on the
\* bucket of three names; every call is answered, in any order.
RaceCalled ==
    /\ listings = << >> \/ Len(requested) < MaxRequested
    /\ \/ \E p \in Paths : ListCustom(p, 1, TRUE)
       \/ \E p \in Paths : ListAllVersions(p, 1, TRUE)
       \/ \E p \in Paths : InitList(p)

RaceAnswered == \E i \in 1..Len(listings) : ListingReturns(i, TRUE)

NextRace == RaceCalled \/ RaceAnswered

SpecRace == InitShown /\ [][NextRace]_vars

\* The store with and without its client: init and clear, the selection,
\* listings, deleteSelected, and every operation called without the client.
Selections ==
    {<< >>} \cup {<<files[n]>> : n \in 1..Len(files)}
            \cup {<<files[n], files[m]>> : n, m \in {k \in 1..Len(files) : MaxOps > 1}}

ClientChanged == InitClient \/ Clear

SelectionUpdated == \E selected \in Selections : UpdateSelectedFiles(selected)

UninitializedCalled == \E op \in AssertingOps : CalledUninitialized(op)

SelectedDeleted == \E withVersions \in BOOLEAN : DeleteSelected(withVersions)

RootListed == listings = << >> /\ \E p \in Paths : InitList(p)

NextClient ==
    \/ ClientChanged \/ SelectionUpdated \/ UninitializedCalled \/ SelectedDeleted
    \/ RootListed \/ ListingAnswered \/ ObjectsRun

SpecClient == InitShown /\ [][NextClient]_vars

\* deleteSelected with its client, on the rows a listing shows: files with
\* deleteObject or deleteObjectWithVersions, a folder with deleteFolder or
\* deleteFolderWithVersions
EntrySelections ==
    Selections \cup {<<files[n], files[m]>> : n, m \in 1..Len(files)}

\* no call is in progress
NothingCalled == calls = << >> /\ folderCall.pc = "idle" /\ listings = << >>

EntriesSelected ==
    NothingCalled /\ \E selected \in EntrySelections : UpdateSelectedFiles(selected)

PathListed == NothingCalled /\ \E p \in Paths : InitList(p)

VersionsRun ==
    \/ \E i \in 1..Len(calls), ok \in BOOLEAN : VersionsListReturns(i, ok)
    \/ \E i \in 1..Len(calls), n \in 1..Cardinality(AllVersions), ok \in BOOLEAN :
          VersionDeleteReturns(i, n, ok)

NextSelected ==
    \/ EntriesSelected \/ SelectedDeleted \/ PathListed
    \/ ObjectsRun \/ VersionsRun \/ FolderRuns

SpecSelected == InitShown /\ [][NextSelected]_vars

\* The rows of a listing sorted and sliced: initList and listByToken on a
\* bucket of seven names at the root, three of them folders, sort() and
\* setCursor() with the limits of ViewLimits
ViewKeys ==
    {<<"b">>, <<"c", Slash, "a">>, <<"d", Slash, "a">>, <<"e">>, <<"g">>, <<"s">>,
     <<"s", Slash, "a">>}

InitView == InitListed(ViewKeys, {})

ViewLimits == {2, 100, 250}

ViewCursors == {[limit |-> l, page |-> p] : l \in ViewLimits, p \in 1..MaxViewPage}

Headings == {"name", "size", "date"}

Sorted == \E heading \in Headings : Sort(heading)

CursorSet == \E c \in ViewCursors : SetCursor(c)

BatchListed ==
    /\ listings = << >>
    /\ \/ \E p \in Paths : InitList(p)
       \/ \E p \in Paths, e \in continuationTokens : ListByToken(p, e.key)

NextView == Sorted \/ CursorSet \/ BatchListed \/ ListingAnswered

SpecView == InitView /\ [][NextView]_vars

\* ------------------------------------------------------------------ claims

Terminal == {"Finished", "Failed", "Cancelled"}

StepEnded(k) == steps[k].pc \in {"fulfilled", "rejected"}

\* C1: the completion steps run one at a time and in enqueue order: a step has
\* begun only if every step enqueued before it has ended, its listing refresh
\* included (no refresh of an ended or not yet begun step is outstanding).
C1_StepsSerialized ==
    /\ \A k \in 1..Len(steps) :
          steps[k].pc # "pending" => \A j \in 1..(k - 1) : StepEnded(j)
    /\ \A j, k \in 1..Len(steps) : j < k => steps[j].upload < steps[k].upload
    /\ \A i \in 1..Len(listings) :
          listings[i].owner.kind = "chain" => steps[listings[i].owner.index].pc = "refresh"

\* the second step is in its refresh, the first has ended
C1_Witness ==
    /\ Len(steps) >= 2
    /\ StepEnded(1)
    /\ steps[2].pc = "refresh"

\* C2: at most one listing refresh is outstanding for the same path.
C2_OneRefreshOutstanding ==
    \A i, j \in 1..Len(listings) : i # j => listings[i].path # listings[j].path

InProgressEntry(id) == id <= Len(entries) /\ entries[id].status = "InProgress"

TerminalEntry(id) == id <= Len(entries) /\ entries[id].status \in Terminal

\* C3: under fairness every upload added with status in-progress eventually gets
\* a terminal status.
C3_UploadsSettle ==
    \A id \in 1..MaxUploads : InProgressEntry(id) ~> TerminalEntry(id)

\* C4: a completion step records the outcome of its transfer on the entry of its
\* own upload only: the entry whose status it changes is the one created with the
\* Upload it awaited, so that the status of every other entry is left to the
\* transfer of that entry.
C4_FailureOnOwnEntry ==
    [][\A k \in 1..Len(steps) :
          StepAfterTransfer(k) =>
              \A id \in 1..Len(entries) :
                  entries'[id].status # entries[id].status => id = steps[k].upload]_vars

\* C5: cancelUpload makes the entry cancelled, and the completion step of an
\* upload that cancelUpload aborted notifies no error and sets no entry to failed.
C5_AbortSwallowed ==
    [][/\ \A key \in UploadKeys :
            CancelUpload(key) =>
                \A i \in 1..Len(uploading) :
                    entries[uploading[i]].Key = key
                        => entries'[uploading[i]].status = "Cancelled"
       /\ \A k \in 1..Len(steps) :
            (StepAfterTransfer(k) /\ entries[steps[k].upload].upload = "aborted") =>
                /\ notified' = notified
                /\ \A id \in 1..Len(entries) :
                      entries'[id].status = "Failed" => entries[id].status = "Failed"]_vars

\* what the claim calls a collision: the top-level directory name of the file, or
\* its full relative key, equals the Key of a listed row
Collides(item) ==
    \E i \in 1..Len(files) :
        \/ files[i].Key = FirstSegment(item.path)
        \/ files[i].Key = item.path \o item.name

CollidingNames(batch) ==
    LET name(item) == item.path \o item.name
    IN  MapSeq(FilterSeq(batch, Collides), name)

\* C6: upload() without ignoreDuplicate on files of which at least one collides
\* raises DuplicateUploadError with the colliding names (the first five), adds no
\* entry to uploading and hands nothing to the transport.
C6_DuplicatesAbortBatch ==
    LET colliding == CollidingNames(dropped.batch)
    IN  (dropped.handled /\ ~dropped.ignoreDuplicate /\ Len(colliding) > 0) =>
            /\ thrown = [name  |-> "DuplicateUploadError",
                         files |-> SubSeq(colliding, 1, Min(Len(colliding), 5))]
            /\ entries = << >>
            /\ uploading = << >>
            /\ steps = << >>
            /\ pendingFiles = << >>

\* six files, five of them colliding, and the error names the five
C6_Witness ==
    /\ dropped.handled
    /\ ~dropped.ignoreDuplicate
    /\ Len(dropped.batch) = 6
    /\ Len(CollidingNames(dropped.batch)) = 5
    /\ thrown.name = "DuplicateUploadError"
    /\ Len(thrown.files) = 5

AddedEntry == entries'[Len(entries')]

EnqueuedKey == path \o Head(pendingFiles).path \o Head(pendingFiles).name

\* more than 30 GiB
OverThirtyGiB(body) == body.gib > 30 \/ (body.gib = 30 /\ body.rem > 0)

\* what enqueueUpload does with a body by its size alone
SizeDecides ==
    IF OverThirtyGiB(Head(pendingFiles).body)
    THEN /\ Len(entries') = Len(entries) + 1
         /\ AddedEntry.status = "Failed"
         /\ AddedEntry.failedMessage = "TooBig"
         /\ AddedEntry.upload = "none"
         /\ uploading'[Len(uploading')] = Len(entries')
         /\ steps' = steps
    ELSE /\ Len(entries') = Len(entries) + 1
         /\ AddedEntry.status = "InProgress"
         /\ AddedEntry.upload = "created"
         /\ uploading'[Len(uploading')] = Len(entries')
         /\ steps' = Append(steps, [upload |-> Len(entries'), pc |-> "pending", item |-> 0])

\* C7, as claimed: every enqueueUpload of a body over 30 GiB adds a failed TooBig
\* entry, starts no transfer and appends no step; every enqueueUpload of a body of
\* exactly 30 GiB adds an in-progress entry and hands it to the transport.
C7_SizeAlone == [][UploadEnqueue => SizeDecides]_vars

\* C7, amended: the same for a key that has no in-progress entry (for a key that
\* has one, enqueueUpload returns before it looks at the size).
C7_SizeCeiling == [][(UploadEnqueue /\ ~IsUploading(EnqueuedKey)) => SizeDecides]_vars

\* an oversize body was refused and a body of exactly the ceiling accepted
C7_Witness ==
    \E i, j \in 1..Len(entries) :
        /\ entries[i].failedMessage = "TooBig" /\ entries[i].upload = "none"
        /\ entries[j].status = "InProgress" /\ entries[j].upload = "created"

OnePerKey ==
    \A i, j \in 1..Len(uploading) :
        i # j => entries[uploading[i]].Key # entries[uploading[j]].Key

\* C8: uploading holds at most one entry per key; enqueueUpload for a key with an
\* in-progress entry changes neither uploading nor the transfers, and for a key
\* with an entry in a terminal state it takes that entry out and adds the new one.
C8_OneEntryPerKey ==
    /\ []OnePerKey
    /\ [][UploadEnqueue =>
            IF IsUploading(EnqueuedKey)
            THEN UNCHANGED <<uploading, entries, steps>>
            ELSE /\ \A i \in 1..Len(uploading) :
                      entries[uploading[i]].Key = EnqueuedKey
                          => \A j \in 1..Len(uploading') : uploading'[j] # uploading[i]
                 /\ AddedEntry.Key = EnqueuedKey
                 /\ uploading'[Len(uploading')] = Len(entries')]_vars

\* the entry of a key was replaced by the entry of a later upload of that key
C8_Witness ==
    \E i, j \in 1..Len(entries) :
        /\ i < j
        /\ entries[i].Key = entries[j].Key
        /\ entries[i].status \in Terminal
        /\ \A n \in 1..Len(uploading) : uploading[n] # i
        /\ \E n \in 1..Len(uploading) : uploading[n] = j

\* C9. When deleteFolder or deleteFolderWithVersions returns successfully the
\* backend holds nothing under the folder's prefix any more (no key; for the
\* version-aware call no version and no delete marker either), however deep the
\* folder is and however many objects it holds, more than one listing response
\* included; for a flat folder of N objects exactly N delete calls were issued.
FlatFolder(call) == \A h \in call.held : ListedName(h[1], call.prefix) = h[1]

C9_FolderEmptied ==
    folderCall.pc = "resolved" =>
        /\ HeldUnder(folderCall.variant, folderCall.prefix) = {}
        /\ FlatFolder(folderCall) => deleteCalls = Cardinality(folderCall.held)

\* C10. While a deleteFolder or deleteFolderWithVersions call has met no error,
\* at most three of its delete requests are outstanding, every outstanding
\* delete is for an entry listed at the level now being emptied, and none is
\* outstanding while the listing of a level is: a sub-prefix is listed, and
\* its deletes start, only after the deletes of the level above have ended.
C10_ThreeAtATime ==
    folderCall.pc \notin {"idle", "rejected"} =>
        /\ Cardinality(Deleting(pool)) <= 3
        /\ folderCall.pc # "pool" => Deleting(pool) = {}
        /\ \A t \in Deleting(pool) :
              LET key == pool.threads[t].file.Key
              IN  /\ StartsWith(key, folderCall.level)
                  /\ ListedName(key, folderCall.level) = key

\* three deletes of entries of a sub-prefix are outstanding
C10_Witness ==
    /\ folderCall.pc = "pool"
    /\ Len(folderCall.frames) > 1
    /\ Cardinality(Deleting(pool)) = 3

Failed(p) == {t \in 1..Len(p.threads) : p.threads[t].st = "failed"}

\* C11. A delete call of a folder delete that fails makes the folder delete
\* fail for its caller, and it stops nothing but its own thread: when one call
\* of a level has failed and no delete is outstanding any more, a delete was
\* sent for every entry of the level's response, and every other one completed.
C11_OneFailureSurfaces ==
    /\ Failed(pool) # {} => folderCall.pc = "rejected"
    /\ (Cardinality(Failed(pool)) = 1 /\ Deleting(pool) = {}) =>
          /\ pool.Contents = << >>
          /\ pool.issued = pool.Listed
          /\ \A t \in 1..Len(pool.threads) : t \notin Failed(pool) => pool.threads[t].st = "done"

\* one call of a level of four entries failed, the three others completed
C11_Witness ==
    /\ Cardinality(Failed(pool)) = 1
    /\ Deleting(pool) = {}
    /\ pool.Listed = 4
    /\ pool.issued = 4
    /\ Cardinality(HeldUnder(folderCall.variant, folderCall.level)) =
           Cardinality(folderCall.held) - 3

DeleteObjectCalls == {i \in 1..Len(calls) : calls[i].op = "deleteObject"}

\* the row of the file is still shown
Listed(file) == \E n \in 1..Len(files) : files[n].Key = file.Key /\ files[n].path = file.path

\* the call is the only deleteObject of its file
OnlyDeleteOf(i) == \A j \in DeleteObjectCalls : calls[j].file = calls[i].file => j = i

DeleteObjectEnds(i) ==
    /\ i \in DeleteObjectCalls
    /\ calls[i].pc # "done"
    /\ calls'[i].pc = "done"

\* C12. deleteObject on a file: its composite key is in filesToBeDeleted from
\* before the delete call is sent until the call returns (while the delete and
\* the refresh are outstanding); one delete call is sent per deleteObject; when
\* the delete is answered the key has no entry in uploading any more, and the
\* refresh starts then if shouldRefresh is set and not otherwise; when
\* deleteObject returns, filesToBeDeleted does not hold the key and files does
\* not hold the row.
C12_DeleteObjectOrder ==
    /\ [](\A i \in DeleteObjectCalls :
            /\ (calls[i].pc \in {"delete", "refresh"} /\ OnlyDeleteOf(i))
                  => CompositeKey(calls[i].file) \in filesToBeDeleted
            /\ calls[i].pc = "refresh" => calls[i].shouldRefresh)
    /\ [](deleteCalls = Cardinality(DeleteObjectCalls))
    /\ [][\A i \in DeleteObjectCalls :
            /\ DeleteReturns(i, TRUE) =>
                  /\ \A n \in 1..Len(uploading') : entries[uploading'[n]].Key # calls[i].key
                  /\ calls[i].shouldRefresh =>
                        /\ Len(listings') = Len(listings) + 1
                        /\ calls'[i].pc = "refresh"
                        /\ files' = files
                  /\ ~calls[i].shouldRefresh => listings' = listings
            /\ DeleteObjectEnds(i) =>
                  /\ CompositeKey(calls[i].file) \notin filesToBeDeleted'
                  /\ ~Listed(calls[i].file)']_vars

\* a deleteObject with a refresh has returned, for a key that had an entry in
\* uploading
C12_Witness ==
    \E i \in DeleteObjectCalls :
        /\ calls[i].pc = "done"
        /\ calls[i].shouldRefresh
        /\ \E id \in 1..Len(entries) : entries[id].Key = calls[i].key
        /\ uploading = << >>

\* C13. No object of kind folder is in uploading, and the composite key of no
\* folder object is in filesToBeDeleted.
C13_NoFolderPending ==
    /\ \A n \in 1..Len(uploading) : entries[uploading[n]].type # "folder"
    /\ \A n \in 1..Len(files) :
          files[n].type = "folder" => CompositeKey(files[n]) \notin filesToBeDeleted

\* the listing calls the user made that are outstanding
UserListings == {i \in 1..Len(listings) : listings[i].owner.kind = "user"}

TokenKeys(tokens) == {e.key : e \in tokens}

\* key k gets a token, or another token, in this step
TokenWritten(k) ==
    /\ k \in TokenKeys(continuationTokens')
    /\ GetToken(continuationTokens', k) # GetToken(continuationTokens, k)

\* C14. A token gets into continuationTokens under page N+1 only in the step in
\* which the listing of page N is answered successfully (listCustom,
\* listAllVersions), and under MAX_KEY_COUNT * (n + 1) only in the step in which
\* batch n of initList is answered successfully; clearTokens leaves none, so an
\* entry under N+1 tells that page N was fetched since the tokens were cleared.
C14_TokensFollowFetches ==
    [][/\ \A k \in TokenKeys(continuationTokens') :
             TokenWritten(k) =>
                 \E i \in 1..Len(listings) :
                     /\ ListingReturns(i, TRUE)
                     /\ \/ /\ listings[i].fn \in {"listCustom", "listAllVersions"}
                           /\ listings[i].saveNextToken
                           /\ k = listings[i].page + 1
                        \/ /\ listings[i].fn = "initList"
                           /\ k = MAX_KEY_COUNT * (listings[i].iteration + 1)
       /\ ClearTokens => continuationTokens' = {}]_vars

\* tokens are recorded under page 2 and under the second batch of initList
C14_Witness ==
    /\ GetToken(continuationTokens, 2) # NoToken
    /\ GetToken(continuationTokens, MAX_KEY_COUNT * 2) # NoToken
    /\ listings = << >>

\* C15. When the answer comes to a listCustom or listAllVersions for a page
\* greater than 1 that had no token in continuationTokens, cursor.page is not
\* the requested page and files is what it was.
C15_NoJumpWithoutToken ==
    [][\A i \in UserListings :
          (/\ listings[i].fn \in {"listCustom", "listAllVersions"}
           /\ listings[i].page > 1
           /\ listings[i].token = NoToken
           /\ ListingReturns(i, TRUE))
              => /\ cursor'.page # listings[i].page
                 /\ files' = files]_vars

\* C16. When a storage call of a listing fails, files and path are what they
\* were when the listing was called.
C16_FailureKeepsFiles ==
    [][\A i \in UserListings :
          ListingReturns(i, FALSE)
              => /\ files' = listings[i].before.files
                 /\ path' = listings[i].before.path]_vars

\* rows a is rows b with some rows taken out
RowsRemoved(a, b) ==
    /\ Len(a) < Len(b)
    /\ a = SelectSeq(b, LAMBDA r : r \in SeqToSet(a))

\* the step is the successful answer of a listing that puts its path and its
\* rows in place of the rows shown
ReplacedByListing ==
    \E i \in 1..Len(listings) :
        /\ ListingReturns(i, TRUE)
        /\ path' = listings[i].path
        /\ \/ files' = PageRows(listings[i].fn, listings[i].path, listings[i].token)
           \/ RowsRemoved(files', PageRows(listings[i].fn, listings[i].path, listings[i].token))

\* C17. Every row of files has the current path as its path. path changes only
\* in the successful answer of a listing, together with files, which then holds
\* rows of that listing only; any other change of files takes rows out of it.
C17_RowsOfCurrentPath ==
    /\ [](\A n \in 1..Len(files) : files[n].path = path)
    /\ [][/\ path' # path => ReplacedByListing
          /\ files' # files => (ReplacedByListing \/ RowsRemoved(files', files))]_vars

\* the rows of the folder d are shown after the rows of the root were, and a row
\* was taken out by deleteObject
C17_Witness ==
    /\ path = <<"d", Slash>>
    /\ files # << >>
    /\ \E i \in DeleteObjectCalls : calls[i].pc = "done" /\ calls[i].file.path = Empty

\* the answer to listing i is a successful object listing that is shown
ObjectListingShown(i) ==
    /\ listings[i].fn \in {"initList", "listByToken", "listCustom"}
    /\ listings[i].fn = "initList" => listings[i].iteration = 1
    /\ ListingReturns(i, TRUE)

\* the rows rows are what the claim says for a response with these Contents and
\* CommonPrefixes listed under p
RowsOfResponse(rows, p, Contents, CommonPrefixes) ==
    LET folders == Len(CommonPrefixes)
        relative(c) == SliceFrom(Contents[c].Key, Len(p))
        shown == {c \in 1..Len(Contents) :
                     relative(c) # << >> /\ ~Includes(relative(c), PlaceholderName)}
        earlier(b, c) ==
            \/ Contents[b].LastModified < Contents[c].LastModified
            \/ Contents[b].LastModified = Contents[c].LastModified /\ b < c
        place(c) == folders + 1 + Cardinality({b \in shown : earlier(b, c)})
    IN  /\ Len(rows) = folders + Cardinality(shown)
        /\ \A n \in 1..folders :
              /\ rows[n].type = "folder"
              /\ rows[n].path = p
              /\ p \o rows[n].Key \o <<Slash>> = CommonPrefixes[n]
        /\ \A c \in shown :
              /\ rows[place(c)].type = "file"
              /\ rows[place(c)].path = p
              /\ rows[place(c)].Key = relative(c)
              /\ rows[place(c)].LastModified = Contents[c].LastModified
        /\ \A n \in 1..Len(rows) : ~Includes(rows[n].Key, PlaceholderName)

VersionListingShown(i) ==
    /\ listings[i].fn = "listAllVersions"
    /\ ListingReturns(i, TRUE)

\* the file rows of rows are what the claim says for the items of a response
\* listed under p
RowsOfVersions(rows, p, items) ==
    LET relative(m) == SliceFrom(items[m].Key, Len(p))
        visible == {m \in 1..Len(items) :
                       relative(m) # << >> /\ ~Includes(relative(m), PlaceholderName)}
        keys == {relative(m) : m \in visible}
        group(k) == {m \in visible : relative(m) = k}
        fileRows == {n \in 1..Len(rows) : rows[n].type = "file"}
        same(v, m) ==
            /\ v.VersionId = items[m].VersionId
            /\ v.isDeleteMarker = items[m].isDeleteMarker
            /\ v.LastModified = items[m].LastModified
        rowOf(n, k) ==
            LET V == rows[n].Versions
            IN  /\ rows[n].path = p
                /\ Len(V) = Cardinality(group(k))
                /\ \A m \in group(k) : \E j \in 1..Len(V) : same(V[j], m)
                /\ \A j \in 1..(Len(V) - 1) : V[j].LastModified >= V[j + 1].LastModified
                /\ \A m \in group(k) : items[m].LastModified <= rows[n].LastModified
                /\ \E m \in group(k) :
                       /\ rows[n].LastModified = items[m].LastModified
                       /\ rows[n].isDeleteMarker = items[m].isDeleteMarker
    IN  /\ Cardinality(fileRows) = Cardinality(keys)
        /\ \A k \in keys : \E n \in fileRows : rows[n].Key = k /\ rowOf(n, k)

\* C19. After listAllVersions files holds one file row per key of the response
\* page: the row has the modification time and the isDeleteMarker of the most
\* recent entry of its key, and its Versions are all the versions and delete
\* markers of the key in the page, most recent first.
C19_OneRowPerKey ==
    [][\A i \in 1..Len(listings) :
          VersionListingShown(i) =>
              LET call == listings[i]
                  response == ListVersionsPage(call.path, FirstPart(call.token),
                                               SecondPart(call.token), MaxKeysOf(call.fn))
              IN  RowsOfVersions(files', call.path,
                                 response.Versions \o response.DeleteMarkers)]_vars

\* the versions of the root are listed: the row of a, with three versions and a
\* more recent delete marker, is a delete marker with four Versions
C19_Witness ==
    /\ listings = << >>
    /\ path = Empty
    /\ \E n \in 1..Len(files) :
          /\ files[n].Key = <<"a">>
          /\ files[n].type = "file"
          /\ files[n].isDeleteMarker
          /\ Len(files[n].Versions) = 4
          /\ files[n].Versions[1].isDeleteMarker
          /\ \A j \in 2..4 : ~files[n].Versions[j].isDeleteMarker

\* an operation that needs the backend is called in this step
BackendOperationCalled ==
    \/ \E op \in AssertingOps : CalledUninitialized(op)
    \/ \E withVersions \in BOOLEAN : DeleteSelected(withVersions)

\* C20. An operation that needs the backend and is called while the client is
\* not configured raises the uninitialized-client error, sends no storage call
\* and leaves files, uploading, continuationTokens and filesToBeDeleted as they
\* are.
C20_UninitializedRaises ==
    [][(~Initialized /\ BackendOperationCalled) =>
          /\ thrown' = UninitializedError
          /\ listings' = listings
          /\ calls' = calls
          /\ deleteCalls' = deleteCalls
          /\ files' = files
          /\ uploading' = uploading
          /\ continuationTokens' = continuationTokens
          /\ filesToBeDeleted' = filesToBeDeleted]_vars

\* the chain link of upload k still waits for the link of an earlier upload
LinkWaits(k) == steps[k].pc = "pending" /\ ~ChainReady(k)

\* the transfer of the Upload of link k has been started
TransferOutstanding(k) == entries[steps[k].upload].upload # "created"

\* C21. The transfers of distinct enqueued uploads proceed concurrently: the
\* transfer of a later-enqueued upload is outstanding while the transfer or the
\* completion step of an earlier one has not finished; only the completion
\* handling is serialized.
C21_TransfersConcurrent ==
    \A k \in 1..Len(steps) :
        (LinkWaits(k) /\ entries[steps[k].upload].status = "InProgress")
            => TransferOutstanding(k)

\* ------------------------------------------------------------------ C22

\* a bucket that holds exactly a folder key, one key under it and one key at the
\* root
ScenarioFolder == <<"d", Slash>>

ScenarioKeys == {ScenarioFolder, ScenarioFolder \o <<"a">>, <<"b">>}

InitScenario == InitListed(ScenarioKeys, {})

\* a listing of a first page is called while none is outstanding
ScenarioListed ==
    /\ listings = << >>
    /\ \/ \E p \in Paths, save \in BOOLEAN : ListCustom(p, 1, save)
       \/ \E p \in Paths, save \in BOOLEAN : ListAllVersions(p, 1, save)
       \/ \E p \in Paths : InitList(p)

NextScenario == ScenarioListed \/ ListingAnswered

SpecScenario == InitScenario /\ [][NextScenario]_vars

\* initList for the folder of the scenario completes in this step
FolderInitListCompletes ==
    \E i \in 1..Len(listings) :
        /\ listings[i].fn = "initList"
        /\ listings[i].path = ScenarioFolder
        /\ ListingReturns(i, TRUE)
        /\ Len(listings') < Len(listings)

\* C22, as stated. For a bucket holding exactly the keys a/, a/x.txt and b.txt,
\* after initList for the prefix a/ completes, totalObjectCount is 0.
C22_CountIsZero == [][FolderInitListCompletes => totalObjectCount' = 0]_vars

\* C22, amended. For that bucket the backend reports two keys under the prefix,
\* a/ and a/x.txt, and after initList for the prefix a/ completes,
\* totalObjectCount is that count decremented by one: 1, the one row shown.
C22_CountIsOne ==
    [][FolderInitListCompletes =>
          /\ totalObjectCount' = 1
          /\ totalObjectCount' = Len(files')]_vars

C22_Witness ==
    /\ path = ScenarioFolder
    /\ listings = << >>
    /\ Len(files) = 1
    /\ files[1].Key = <<"a">>
    /\ totalObjectCount = 1

\* ------------------------------------------------------------------ C23

\* the listing calls that are the refresh of the folder call
FolderRefreshes == {i \in 1..Len(listings) : listings[i].owner.kind = "folder"}

\* a listing call is sent in this step
ListingSent == Len(listings') > Len(listings)

\* a sub-prefix listed by a level of the folder call has not been recursed into
UnvisitedPrefixes == \E f \in 1..Len(folderCall.frames) : folderCall.frames[f] # << >>

\* C23. deleteFolder with shouldRefresh performs exactly one listing refresh,
\* after every delete call of every level has completed: the refresh is the only
\* listing it sends, none of its deletes is outstanding and no sub-prefix is
\* left to recurse into when it is sent, and the call resolves only once that
\* refresh is answered. The individual deletes and the nested recursive calls
\* send no refresh, and a call without shouldRefresh sends none at all.
C23_OneRefreshAtTheEnd ==
    /\ [](Cardinality(FolderRefreshes) <= 1)
    /\ [][/\ ListingSent =>
                /\ folderCall.variant = "plain"
                /\ folderCall.shouldRefresh
                /\ folderCall.pc \in {"listing", "pool"}
                /\ folderCall'.pc = "refresh"
                /\ Len(listings') = Len(listings) + 1
                /\ ~UnvisitedPrefixes
                /\ Deleting(pool') = {}
                /\ pool'.Contents = << >>
          /\ (folderCall.pc # "resolved" /\ folderCall'.pc = "resolved"
                 /\ folderCall.shouldRefresh) =>
                /\ folderCall.pc = "refresh"
                /\ FolderRefreshes # {}
                /\ Len(listings') < Len(listings)]_vars

\* a deleteFolder with shouldRefresh of a folder with objects one level down has
\* resolved
C23_Witness ==
    /\ folderCall.pc = "resolved"
    /\ folderCall.variant = "plain"
    /\ folderCall.shouldRefresh
    /\ \E h \in folderCall.held : ListedName(h[1], folderCall.prefix) # h[1]
    /\ deleteCalls >= 3
    /\ listings = << >>

\* ------------------------------------------------------------------ C24

\* deleteSelected is called in this step, the client configured
DeleteSelectedCalled ==
    Initialized /\ \E withVersions \in BOOLEAN : DeleteSelected(withVersions)

\* the calls made in this step
NewCalls == (Len(calls) + 1)..Len(calls')

\* the delete task of the selected entry is started in this step
TaskStarted(entry) ==
    IF entry.type = "file"
    THEN \E i \in NewCalls :
            /\ calls'[i].file = entry
            /\ calls'[i].op \in {"deleteObject", "deleteObjectWithVersions"}
    ELSE /\ folderCall.pc = "idle"
         /\ folderCall'.pc = "listing"
         /\ folderCall'.file = entry

\* files loses rows and changes in no other way
RowsOnlyRemoved ==
    LET stays(row) == row \in SeqToSet(files')
    IN  files' = FilterSeq(files, stays)

\* C24. deleteSelected puts the composite key of every selected entry in
\* filesToBeDeleted before its first storage call, runs one delete task per
\* selected entry and performs no listing refresh itself; from its call to its
\* return files changes only by the removal of rows.
C24_DeleteSelectedTasks ==
    [][/\ DeleteSelectedCalled =>
             /\ KeysOf(selectedFiles) \subseteq filesToBeDeleted'
             /\ \A n \in 1..Len(selectedFiles) : TaskStarted(selectedFiles[n])
             /\ Cardinality(NewCalls) + (IF folderCall' # folderCall THEN 1 ELSE 0)
                    = Len(selectedFiles)
             /\ listings' = listings
             /\ files' = files
       /\ ListingSent => listings'[Len(listings')].owner.kind = "user"
       /\ ~ListingAnswered => RowsOnlyRemoved]_vars

\* deleteSelected of a file and a folder has returned: both rows are gone
C24_Witness ==
    /\ Len(selectedFiles) = 2
    /\ calls # << >>
    /\ calls[1].pc = "done"
    /\ folderCall.pc = "resolved"
    /\ files # << >>
    /\ \A n \in 1..Len(selectedFiles) :
          \A m \in 1..Len(files) : files[m].Key # selectedFiles[n].Key
    /\ filesToBeDeleted = {}
    /\ listings = << >>

\* ------------------------------------------------------------------ C25

\* the name is the name of a file of the drop event that collides with a row
ReallyCollides(name) ==
    \E i \in 1..Len(dropped.batch) :
        /\ dropped.batch[i].path \o dropped.batch[i].name = name
        /\ Collides(dropped.batch[i])

\* C25. The duplicate detection of upload collects at most 5 colliding names,
\* each of which really collides with a listed entry, and stops traversing the
\* input once it has 5 colliding names or has inspected 100 candidates,
\* whichever comes first: when it has found a collision it never inspects more
\* than 100 candidates plus the one that stops it.
C25_DetectionBounded ==
    (dropped.handled /\ thrown.name = "DuplicateUploadError") =>
        /\ Len(thrown.files) <= 5
        /\ \A n \in 1..Len(thrown.files) : ReallyCollides(thrown.files[n])
        /\ dropped.inspected <= 100 + 1

\* ------------------------------------------------------------------ C26

\* the response to the version listing call i
VersionsAnswer(i) ==
    ListVersionsPage(listings[i].path, FirstPart(listings[i].token),
                     SecondPart(listings[i].token), cursor.limit)

\* listAllVersions with saveNextToken gets its response in this step
VersionsSaved(i) ==
    /\ listings[i].fn = "listAllVersions"
    /\ listings[i].saveNextToken
    /\ ListingReturns(i, TRUE)

EmptyComposite == <<":", ":">>

\* C26. listAllVersions with saveNextToken records under page + 1 the key
\* marker and the version marker of the response joined by '::'; when the
\* response carries neither marker it records nothing; the empty composite
\* token '::' is never a value of continuationTokens.
C26_CompositeTokenSaved ==
    /\ [](\A e \in continuationTokens : e.token # EmptyComposite)
    /\ [][\A i \in 1..Len(listings) :
             VersionsSaved(i) =>
                 LET keyMarker == VersionsAnswer(i).NextKeyMarker
                     versionMarker == VersionsAnswer(i).NextVersionIdMarker
                 IN  IF keyMarker = << >> /\ versionMarker = << >>
                     THEN continuationTokens' = continuationTokens
                     ELSE /\ [key |-> listings[i].page + 1,
                              token |-> keyMarker \o EmptyComposite \o versionMarker]
                                 \in continuationTokens'
                          /\ \A e \in continuationTokens' :
                                e.key # listings[i].page + 1 => e \in continuationTokens
                          /\ Cardinality({e \in continuationTokens' :
                                             e.key = listings[i].page + 1}) = 1]_vars

\* the first page of the versions of the root ended within the versions of b:
\* the token of page 2 is the key b and its current version
C26_Witness ==
    /\ listings = << >>
    /\ path = Empty
    /\ cursor.page = 1
    /\ [key |-> 2, token |-> <<"b", ":", ":", CurrentVersion>>] \in continuationTokens
    /\ \E n \in 1..Len(files) : files[n].Key = <<"a">> /\ Len(files[n].Versions) = 4

\* ------------------------------------------------------------------ C27

\* how often row r is in q
Occurrences(q, r) == Cardinality({i \in 1..Len(q) : q[i] = r})

\* q holds the rows of files, each as often as files does
PermutationOfFiles(q) ==
    /\ Len(q) = Len(files)
    /\ \A r \in SeqToSet(files) : Occurrences(q, r) = Occurrences(files, r)

\* a is not after b by the sort key of the state
NotAfter(a, b) ==
    CASE headingSorted = "name" -> ~StrLess(b.Key, a.Key)
      [] headingSorted = "size" -> a.Size <= b.Size
      [] headingSorted = "date" -> a.LastModified <= b.LastModified

\* the rows of a kind are in the order of the sort key, in the direction chosen
GroupsOrdered(q) ==
    \A i, j \in 1..Len(q) :
        (i < j /\ q[i].type = q[j].type) =>
            IF orderBy = "asc" THEN NotAfter(q[i], q[j]) ELSE NotAfter(q[j], q[i])

\* C27. For every content of files whose rows are files and folders, every sort
\* key (name, size, date) and both directions, sortedFiles is a permutation of
\* files in which every folder precedes every file, each of the two groups
\* ordered by the sort key in the chosen direction; sort() and the computation
\* leave the order of files in the state as it is.
C27_SortedFiles ==
    /\ [](/\ PermutationOfFiles(sortedFiles)
          /\ \A i, j \in 1..Len(sortedFiles) :
                (sortedFiles[i].type = "file" /\ sortedFiles[j].type = "folder") => j < i
          /\ GroupsOrdered(sortedFiles))
    /\ [][Sorted => files' = files]_vars

\* two folders and three files sorted by size, largest first: sortedFiles is
\* not in the order of files
C27_Witness ==
    /\ headingSorted = "size"
    /\ orderBy = "desc"
    /\ Len(files) = 5
    /\ Cardinality({i \in 1..Len(files) : files[i].type = "folder"}) = 2
    /\ sortedFiles # files
    /\ sortedFiles[3].Key = <<"e">>

\* ------------------------------------------------------------------ C28

\* the rows of q at the indices from .. to - 1, counted from 0
RowsAt(q, from, to) == [i \in 1..(Min(to, Len(q)) - from) |-> q[from + i]]

\* the window of the page of the cursor, in absolute indices
WindowStart == cursor.limit * (cursor.page - 1)
WindowEnd == cursor.limit * cursor.page

\* listByToken(path, k, token) gets its response in this step
TokenBatchShown(i) == listings[i].fn = "listByToken" /\ ListingReturns(i, TRUE)

\* C28. displayedObjects holds at most cursor.limit rows and is the slice of
\* sortedFiles for the logical page of the cursor: with the initial active
\* range it is the slice [limit*(page-1), limit*page); listByToken(path, k,
\* token) sets the active range to {k-500, k}, and then, for a page whose
\* absolute window lies inside that range, it is the slice at the absolute
\* indices reduced by the start of the range, which is never negative and never
\* beyond the 500 materialized rows.
C28_DisplayedSlice ==
    /\ [](/\ Len(displayedObjects) <= cursor.limit
          /\ activeObjectsRange = [start |-> 1, end |-> 500] =>
                displayedObjects = RowsAt(sortedFiles, WindowStart, WindowEnd)
          /\ (/\ activeObjectsRange # [start |-> 1, end |-> 500]
              /\ activeObjectsRange.start <= WindowStart
              /\ WindowEnd <= activeObjectsRange.end) =>
                /\ WindowStart - activeObjectsRange.start >= 0
                /\ WindowEnd - activeObjectsRange.start <= 500
                /\ displayedObjects =
                       RowsAt(sortedFiles, WindowStart - activeObjectsRange.start,
                              WindowEnd - activeObjectsRange.start))
    /\ [][\A i \in 1..Len(listings) :
             TokenBatchShown(i) =>
                 activeObjectsRange' = [start |-> listings[i].page - 500,
                                        end |-> listings[i].page]]_vars

\* the second batch is shown and the cursor is on the page of its first rows:
\* displayedObjects holds them
C28_Witness ==
    /\ activeObjectsRange = [start |-> 500, end |-> 1000]
    /\ cursor = [limit |-> 100, page |-> 6]
    /\ listings = << >>
    /\ files # << >>
    /\ Len(displayedObjects) = Len(files)

\* ------------------------------------------------------------------ C29

\* C29. Once the status of an entry of uploading is finished, failed or
\* cancelled, it never changes again for as long as the entry stays in
\* uploading, whatever follows: cancelUpload, later completion steps.
C29_TerminalStatusKept ==
    [][\A n \in 1..Len(uploading) :
          (/\ entries[uploading[n]].status \in Terminal
           /\ uploading[n] \in SeqToSet(uploading'))
              => entries'[uploading[n]].status = entries[uploading[n]].status]_vars

\* ------------------------------------------------------------------ C30

\* no delete operation is in progress: every call has returned to its caller
\* and no delete or listing it sent is outstanding
NoDeleteInProgress ==
    /\ \A i \in 1..Len(calls) :
          /\ calls[i].pc \in {"done", "failed"}
          /\ calls[i].op = "deleteObjectWithVersions" => calls[i].pending = << >>
    /\ folderCall.pc \in {"idle", "resolved", "rejected"}
    /\ Deleting(pool) = {}
    /\ listings = << >>

\* C30. Whenever no delete operation is in progress, filesToBeDeleted is empty:
\* every key added by deleteObject, deleteObjectWithVersions, deleteFolder,
\* deleteFolderWithVersions or deleteSelected is removed by the time that
\* operation ends, whether its storage calls succeeded or failed.
C30_NothingLeftToDelete == NoDeleteInProgress => filesToBeDeleted = {}

\* ------------------------------------------------------------------ C31

\* the promise of deleteFolder or deleteFolderWithVersions has settled
FolderCallSettled == folderCall.pc \in {"resolved", "rejected"}

\* C31. When the promise of deleteFolder or deleteFolderWithVersions settles, by
\* resolving or by rejecting, no delete call issued by that operation is still
\* outstanding, and the operation issues no further delete call afterwards.
C31_SettledFolderIsQuiet ==
    /\ [](FolderCallSettled => Deleting(pool) = {})
    /\ [][FolderCallSettled => deleteCalls' = deleteCalls]_vars

\* ------------------------------------------------------------------ C32

\* the listing requested last, of those called while another was outstanding
LastRequested == requested[Len(requested)]

\* the last outstanding response of listings for different paths arrives
LastAnswerArrives ==
    /\ Len(listings) = 1
    /\ listings' = << >>
    /\ \E n \in 1..Len(requested) : requested[n] # LastRequested

\* C32. When listings for two different paths are requested one after the other
\* and both are outstanding at once, then after both responses have arrived, in
\* either order, path and files hold the result of the listing requested last.
C32_LastRequestedWins ==
    [][LastAnswerArrives =>
          /\ path' = LastRequested
          /\ \E fn \in {"listCustom", "listAllVersions", "initList"} :
                files' = ListingRows(fn, LastRequested)]_vars

\* ------------------------------------------------------------------ C33

\* C33. If the storage call of listCustom or of listAllVersions fails,
\* cursor.page keeps the value it had before the call, so that cursor.page
\* always names the page whose entries are in files.
C33_FailureKeepsPage ==
    [][\A i \in UserListings :
          (/\ listings[i].fn \in {"listCustom", "listAllVersions"}
           /\ ListingReturns(i, FALSE))
              => cursor'.page = listings[i].before.page]_vars

\* ------------------------------------------------------------------ C34

\* buckets with and without keys under the prefix d/: none, a folder of one
\* object without a placeholder, a folder with its placeholder, no key at all
CountBuckets ==
    {{<<"b">>},
     {<<"b">>, <<"d", Slash, "a">>},
     {<<"b">>, <<"d", Slash, PlaceholderName>>, <<"d", Slash, "a">>},
     {}}

InitCount == \E keys \in CountBuckets : InitListed(keys, {})

SpecCount == InitCount /\ [][NextScenario]_vars

\* C34. totalObjectCount is never negative in any reachable state, for initList
\* on the root and on any non-root prefix, including a prefix under which the
\* backend reports no key.
C34_CountNeverNegative == totalObjectCount >= 0

\* ------------------------------------------------------------------ C35

\* a bucket of keys that hold the separator '::', current versions only
MarkerKeys ==
    {<<"a", ":", ":", "a">>, <<"a", ":", ":", "b">>, <<"b", ":", ":", "a">>,
     <<"b", ":", ":", "b">>, <<"c", ":", ":", "a">>, <<"c", ":", ":", "b">>,
     <<"d", Slash, "a">>, <<"e">>}

InitMarkers == InitListed(MarkerKeys, {})

\* a version listing is called while none is outstanding
MarkersCalled ==
    /\ listings = << >>
    /\ \E p \in Paths, page \in 1..(MaxPage + 1), save \in BOOLEAN :
          ListAllVersions(p, page, save)

NextMarkers == MarkersCalled \/ ListingAnswered

SpecMarkers == InitMarkers /\ [][NextMarkers]_vars

\* the key markers and version markers a response of the backend can return:
\* the name of an entry, and its version when it is not a common prefix
ReturnedMarkers ==
    {[key |-> EntryName(e),
      version |-> IF IsPrefixEntry(e) THEN << >> ELSE <<e.VersionId>>] :
        e \in UNION {SeqToSet(FlatVersions(p)) : p \in Paths}}

\* C35. Round trip of the version continuation token: for every key marker and
\* version marker that a listAllVersions response returns and that is stored
\* under page + 1, the next listAllVersions call for page + 1 sends exactly that
\* key marker and that version marker, also when the key marker holds '::'.
C35_MarkersRoundTrip ==
    \A i \in 1..Len(listings) :
        (listings[i].fn = "listAllVersions" /\ listings[i].token # NoToken) =>
            \A m \in ReturnedMarkers :
                listings[i].token = m.key \o EmptyComposite \o m.version =>
                    /\ listings[i].KeyMarker = m.key
                    /\ listings[i].VersionIdMarker = m.version

====
